---- MODULE Spec2Model ----
(***************************************************************************)
(* The task manager of src/asynctask/manager.go as a state machine.        *)
(*                                                                         *)
(* Every client call (Async, Defer, Await, Cancel, Status, Task, Prune,    *)
(* Shutdown) runs on one of the threads in Procs, one step per access      *)
(* to shared state (a sync.Map operation, a channel operation, a mutex     *)
(* section), so that the interleavings of the Go program are those of the  *)
(* model.  The cancellation of a scope reaches the scopes derived from it  *)
(* one at a time.  Every worker goroutine started by Async is a thread of  *)
(* its own, keyed by the task ID, and the goroutine that Shutdown starts   *)
(* to wait for the workers is one more.  A Runnable is the most general    *)
(* one that does not call back into the manager: once invoked it may       *)
(* return a value, return an error or panic at any later moment, whether   *)
(* or not its scope fired.                                                 *)
(***************************************************************************)
EXTENDS Naturals, Sequences, FiniteSets, TLC

\* Bounds of the model.
MaxTasks == 3
MaxCalls == 3

\* Manager.workerLimit, the capacity of Manager.workerSemaphore.
WorkerLimit == 1

\* The goroutines that call the manager: the client threads, and the waiter
\* goroutines that AwaitAll and AwaitAny start, one per position of the list.
Clients == {"p1", "p2"}
Waiters == {"w1", "w2"}
Procs == Clients \cup Waiters

\* The goroutine that Shutdown starts to wait for the workers
\* (manager.go:619-622).
Helper == "h"

\* Cancellation scopes handed to the calls: "bg" is context.Background(),
\* "s1" a cancellable scope with a deadline.
Scopes == {"bg", "s1"}

IDs == 1..MaxTasks
NoID == 0

\* The scopes the manager derives with context.WithCancel: "cc", the child
\* scope that AwaitAll and AwaitAny derive from their caller's scope
\* (manager.go:378, 438), and the taskCtx that Async derives for the entry of
\* an ID from the scope it was given (manager.go:239).
TaskScope(i) == "t" \o ToString(i)
TaskScopes == {TaskScope(i) : i \in IDs}
Derived == {"cc"} \cup TaskScopes

\* The scopes of the model: those handed to calls by the request, and the
\* derived ones.
AllScopes == Scopes \cup Derived

\* How a cancellable scope fires.
Hows == {"canceled"}

\* Time-to-live values given to Prune.
TTLs == {0}

VARIABLES
    tasks,          \* Manager.tasks: ID -> "absent" | "async" | "deferred"
    tasksResult,    \* Manager.tasksResult: ID -> Task | NoResult
    tasksCancel,    \* Manager.tasksCancel: the IDs with a stored CancelFunc
    taskStatuses,   \* Manager.taskStatuses: ID -> Status | "absent"
    sem,            \* len(Manager.workerSemaphore)
    wg,             \* counter of Manager.wg
    shuttingDown,   \* Manager.shuttingDown
    tres,           \* asyncTask.result of the entry created for an ID
    closes,         \* how many times close(asyncTask.done) has run
    dt,             \* deferredTask of an ID: ctx, once, promotedID
    asyncCtx,       \* the scope handed to Async for an ID (parent of taskCtx)
    taskCanceled,   \* the CancelFunc stored for an ID has been called
    runnable,       \* the submission whose Runnable an async entry runs
    scopes,         \* state of each scope: "none" (not made yet) | "live" | "canceled" | "deadline"
    now,            \* time.Now()
    nextID,         \* the next ID xid.New() hands out
    reserved,       \* IDs promised to calls in progress and to promotions
    pc,             \* position of each client thread, and of Shutdown's goroutine
    call,           \* the locals of each client thread's call
    worker,         \* position of each worker goroutine
    wstatus,        \* the worker's local `status`
    wstart,         \* the worker's local `start`
    calls,          \* number of client calls started
    runs,           \* how often the Runnable of a submission was invoked
    known,          \* the IDs that callers have been handed
    cancelRet,      \* per ID, the values returned by Cancel, in order
    awaitFirst,     \* per ID, the outcome of the first Await begun after the latch resolved
    sdLog,          \* what Shutdown has done so far
    refused,        \* the IDs returned by Async and Defer calls begun under shutdown
    childIDs,       \* per entry, the ID its Runnable got from its own call of Async
    wrap,           \* per entry, the locals of its Runnable when it is a WithRetry or WithTimeout wrapper
    cx,             \* a context.Context of the request, what FromContext returned for it, and the managers NewManager made
    grp             \* the locals of the AwaitAll or AwaitAny call

mgr   == <<tasks, tasksResult, tasksCancel, taskStatuses, sem, wg, shuttingDown>>
objs  == <<tres, closes, dt, asyncCtx, taskCanceled, runnable>>
env   == <<scopes, now>>
alloc == <<nextID, reserved>>
thr   == <<pc, call, worker, wstatus, wstart>>
hist  == <<calls, runs, known, cancelRet, awaitFirst, sdLog, refused, childIDs, wrap, cx, grp>>
vars  == <<mgr, objs, env, alloc, thr, hist>>

----------------------------------------------------------------------------
\* Status constants (manager.go:24-32), by their String() form.
StatusDeferred  == "deferred"
StatusPending   == "pending"
StatusRunning   == "running"
StatusCompleted == "completed"
StatusFailed    == "failed"
StatusCanceled  == "canceled"
StatusUnknown   == "unknown"

Absent == "absent"

\* The Task struct (without Duration and Status, which no decision reads).
MkTask(id, result, error, time) ==
    [id |-> id, result |-> result, error |-> error, time |-> time]

\* Task{}: the zero value.
ZeroTask == MkTask(NoID, "nil", "nil", 0)

\* What a lookup in tasksResult yields for a key the table does not hold.
NoResult == MkTask(NoID, "absent", "nil", 0)
NoOutcome == [cat |-> "none", rec |-> ZeroTask]

\* ctx.Err() != nil, and ctx.Done() is closed.
Fired(s) == scopes[s] \in {"canceled", "deadline"}

\* taskCtx.Err() != nil (manager.go:267): the scope made at manager.go:239
\* has fired, because its CancelFunc was called or because the cancellation
\* of its parent has reached it.
TaskCtxFired(id) == Fired(TaskScope(id))

\* The locals of a call.
NewCall(op, c, i, ttl) ==
    [op |-> op, ctx |-> c, arg |-> i, id |-> i, tid |-> NoID, ttl |-> ttl,
     vis |-> {}, snap |-> {}, n |-> 0, st |-> StatusUnknown, ret |-> "none",
     rec |-> ZeroTask, aLatch |-> FALSE, aCancel |-> FALSE, aFired |-> FALSE,
     sd |-> FALSE]

\* The locals of a wrapper Runnable.  WithRetry (manager.go:139-159): retries,
\* the loop index i, how often runnable.Run was called, lastErr, and the
\* timer of time.After.  WithTimeout (manager.go:163-190): timeoutCtx, the
\* goroutine that runs the inner Runnable, and resultChan.  pos is the
\* position of the wrapper, pre tells that the scope had fired when the
\* backoff wait began, late that it had fired when the timer elapsed before
\* the select looked at its arms, first is what happened first of the inner Runnable's
\* return and the firing of timeoutCtx, and val, err are what the wrapper
\* returned.
NoWrap ==
    [kind |-> "none", pos |-> "none", retries |-> 0, i |-> 0, tries |-> 0,
     lastErr |-> "nil", timer |-> "off", pre |-> FALSE, late |-> FALSE,
     tctx |-> "none", inner |-> "none", chan |-> "empty", first |-> "none",
     val |-> "nil", err |-> "nil"]

\* A *Manager: the pointer, and the IDs in its tables.  The nil pointer is 0.
MkManager(ptr, ids) == [ptr |-> ptr, ids |-> ids]
NilManager == MkManager(0, {})

\* context.Background(), no lookup made, no manager made by NewManager.
NoLookup == [ctx |-> <<>>, at |-> <<>>, got |-> NilManager, looked |-> FALSE, made |-> 0]

NoDeferred == [ctx |-> "none", once |-> "idle", promotedID |-> NoID]

\* An error sent by a waiter goroutine of AwaitAll or AwaitAny: the category
\* of the error Await returned, the error it wraps, and the ID in its text.
MkErr(cat, inner, id) == [cat |-> cat, inner |-> inner, id |-> id]
NoErr == MkErr("none", "nil", NoID)

\* The locals of an AwaitAll or AwaitAny call: the list, the tasks slice,
\* the channels errs/errChan and taskChan, the waiters that have delivered,
\* the done channel, the cancel loop's index, and what the call returns.
\* wake is the event that made the blocked select ready, first is the first
\* delivery of a waiter, early tells that the scope fired while the select
\* was blocked, canceled holds the IDs the cancel loop called Cancel on.
NoGroup ==
    [op |-> "none", ctx |-> "none", ids |-> <<>>, slots |-> <<>>, errs |-> <<>>,
     chan |-> <<>>, wdone |-> {}, closed |-> FALSE, wake |-> "none", arm |-> "none",
     k |-> 0, won |-> ZeroTask, err |-> NoErr, ret |-> "none", out |-> <<>>,
     first |-> NoErr, early |-> FALSE, canceled |-> {}, returned |-> FALSE]

\* The entry that carries the work of an ID: the promoted one for a deferred
\* ID that has been promoted.
Target(i) == IF dt[i].promotedID # NoID THEN dt[i].promotedID ELSE i

LatchResolved(i) == closes[Target(i)] >= 1

Init ==
    /\ tasks = [i \in IDs |-> Absent]
    /\ tasksResult = [i \in IDs |-> NoResult]
    /\ tasksCancel = {}
    /\ taskStatuses = [i \in IDs |-> Absent]
    /\ sem = 0
    /\ wg = 0
    /\ shuttingDown = FALSE
    /\ tres = [i \in IDs |-> ZeroTask]
    /\ closes = [i \in IDs |-> 0]
    /\ dt = [i \in IDs |-> NoDeferred]
    /\ asyncCtx = [i \in IDs |-> "bg"]
    /\ taskCanceled = [i \in IDs |-> FALSE]
    /\ runnable = [i \in IDs |-> NoID]
    /\ scopes = [s \in AllScopes |-> IF s \in TaskScopes THEN "none" ELSE "live"]
    /\ now = 1
    /\ nextID = 1
    /\ reserved = 0
    /\ pc = [p \in Procs \cup {Helper} |-> IF p = Helper THEN "h_none" ELSE "idle"]
    /\ call = [p \in Procs |-> NewCall("none", "bg", NoID, 0)]
    /\ worker = [i \in IDs |-> "none"]
    /\ wstatus = [i \in IDs |-> StatusUnknown]
    /\ wstart = [i \in IDs |-> 0]
    /\ calls = 0
    /\ runs = [i \in IDs |-> 0]
    /\ known = {}
    /\ cancelRet = [i \in IDs |-> <<>>]
    /\ awaitFirst = [i \in IDs |-> NoOutcome]
    /\ sdLog = [started |-> FALSE, returned |-> FALSE, arm |-> "none", before |-> {}]
    /\ refused = {}
    /\ childIDs = [i \in IDs |-> NoID]
    /\ wrap = [i \in IDs |-> NoWrap]
    /\ cx = NoLookup
    /\ grp = NoGroup

----------------------------------------------------------------------------
\* The return of a call: the thread becomes idle and keeps the returned
\* value in its locals; the history variables record what callers have seen.
Finish(p, cat, rec) ==
    LET c == call[p] IN
    /\ pc' = [pc EXCEPT ![p] = "idle"]
    /\ call' = [call EXCEPT ![p] =
                  [NewCall(c.op, "bg", c.arg, 0) EXCEPT
                      !.n = c.n, !.ret = cat, !.rec = rec,
                      !.aLatch = c.aLatch, !.aCancel = c.aCancel]]
    /\ known' = known \cup (IF c.op \in {"Async", "Defer"} THEN {c.tid} ELSE {})
                      \cup (IF rec.id # NoID THEN {rec.id} ELSE {})
    /\ cancelRet' = IF c.op = "Cancel" /\ Len(cancelRet[c.arg]) < 2
                    THEN [cancelRet EXCEPT ![c.arg] = Append(@, cat = "true")]
                    ELSE cancelRet
    /\ awaitFirst' = IF c.op = "Await" /\ c.aLatch /\ awaitFirst[c.arg] = NoOutcome
                     THEN [awaitFirst EXCEPT ![c.arg] = [cat |-> cat, rec |-> rec]]
                     ELSE awaitFirst
    /\ sdLog' = IF c.op = "Shutdown" THEN [sdLog EXCEPT !.returned = TRUE] ELSE sdLog
    /\ refused' = refused \cup (IF c.op \in {"Async", "Defer"} /\ c.sd THEN {c.tid} ELSE {})
    /\ childIDs' = IF c.op = "Async" /\ c.arg # NoID
                   THEN [childIDs EXCEPT ![c.arg] = c.tid] ELSE childIDs
    /\ UNCHANGED <<wrap, cx>>
    /\ grp' = IF c.op \in {"AwaitAll", "AwaitAny"} THEN [grp EXCEPT !.returned = TRUE]
               ELSE grp

Goto(p, label) ==
    /\ pc' = [pc EXCEPT ![p] = label]
    /\ UNCHANGED <<known, cancelRet, awaitFirst, sdLog, refused, childIDs, wrap, cx, grp>>

\* The request's thread makes any call; the second thread makes its calls
\* while a call of the first is in progress (a call made while the first
\* thread is idle is no different from a call of the first thread).
Main == "p1"
CanStart(p) == p \in Clients /\ pc[p] = "idle" /\ (p # Main => pc[Main] # "idle")

----------------------------------------------------------------------------
\* Async (manager.go:214-287).  The same steps run for a top-level call and
\* for the promotion of a deferred task by Await (manager.go:334), which
\* passes the deferred task's scope and Runnable.

StartAsync(p, c) ==
    /\ CanStart(p)
    /\ calls < MaxCalls
    /\ nextID + reserved <= MaxTasks
    /\ calls' = calls + 1
    /\ reserved' = reserved + 1
    /\ call' = [call EXCEPT ![p] = [NewCall("Async", c, NoID, 0) EXCEPT !.sd = shuttingDown]]
    /\ Goto(p, "as_store")
    /\ UNCHANGED <<mgr, objs, env, nextID, worker, wstatus, wstart, runs>>

\* manager.go:215-218
AsyncStore(p) ==
    /\ pc[p] = "as_store"
    /\ nextID <= MaxTasks
    /\ LET id == nextID
           promo == call[p].op = "Await"
       IN /\ nextID' = nextID + 1
          /\ reserved' = IF reserved > 0 THEN reserved - 1 ELSE 0
          /\ tasks' = [tasks EXCEPT ![id] = "async"]
          /\ runnable' = [runnable EXCEPT ![id] = IF promo THEN call[p].id ELSE id]
          /\ asyncCtx' = [asyncCtx EXCEPT ![id] = IF promo THEN dt[call[p].id].ctx
                                                          ELSE call[p].ctx]
          /\ call' = [call EXCEPT ![p].tid = id]
    /\ Goto(p, "as_pending")
    /\ UNCHANGED <<tasksResult, tasksCancel, taskStatuses, sem, wg, shuttingDown,
                   tres, closes, dt, taskCanceled, env, worker, wstatus, wstart,
                   calls, runs>>

\* manager.go:219
AsyncPending(p) ==
    /\ pc[p] = "as_pending"
    /\ taskStatuses' = [taskStatuses EXCEPT ![call[p].tid] = StatusPending]
    /\ Goto(p, "as_lock")
    /\ UNCHANGED <<tasks, tasksResult, tasksCancel, sem, wg, shuttingDown, objs, env,
                   alloc, call, worker, wstatus, wstart, calls, runs>>

\* manager.go:221-228
AsyncLock(p) ==
    /\ pc[p] = "as_lock"
    /\ Goto(p, IF shuttingDown THEN "as_sd_status" ELSE "as_select")
    /\ UNCHANGED <<mgr, objs, env, alloc, call, worker, wstatus, wstart, calls, runs>>

\* Where Async returns to: its caller, or the promotion in Await.
AsyncReturn(p) ==
    IF call[p].op = "Await"
    THEN Goto(p, "aw_setprom") /\ UNCHANGED call
    ELSE Finish(p, "id", ZeroTask)

\* manager.go:224
AsyncRefuseStatus(p) ==
    /\ pc[p] = "as_sd_status"
    /\ taskStatuses' = [taskStatuses EXCEPT ![call[p].tid] = StatusCanceled]
    /\ Goto(p, "as_sd_close")
    /\ UNCHANGED <<tasks, tasksResult, tasksCancel, sem, wg, shuttingDown, objs, env,
                   alloc, call, worker, wstatus, wstart, calls, runs>>

\* manager.go:225-226
AsyncRefuseClose(p) ==
    /\ pc[p] = "as_sd_close"
    /\ closes' = [closes EXCEPT ![call[p].tid] = @ + 1]
    /\ AsyncReturn(p)
    /\ UNCHANGED <<mgr, tres, dt, asyncCtx, taskCanceled, runnable, env, alloc,
                   worker, wstatus, wstart, calls, runs>>

\* Mutant of AsyncAcquire: the slot is taken without regard to the capacity
\* of the semaphore.
AsyncAcquire_NoLimit(p) ==
    /\ pc[p] = "as_select"
    /\ sem' = sem + 1
    /\ Goto(p, "as_cancel")
    /\ UNCHANGED <<tasks, tasksResult, tasksCancel, taskStatuses, wg, shuttingDown,
                   objs, env, alloc, call, worker, wstatus, wstart, calls, runs>>

\* manager.go:230-231: the send on the semaphore channel succeeds when the
\* channel is not full.
AsyncAcquire(p) ==
    /\ pc[p] = "as_select"
    /\ sem < WorkerLimit
    /\ sem' = sem + 1
    /\ Goto(p, "as_cancel")
    /\ UNCHANGED <<tasks, tasksResult, tasksCancel, taskStatuses, wg, shuttingDown,
                   objs, env, alloc, call, worker, wstatus, wstart, calls, runs>>

\* manager.go:232-234: the caller's scope has fired; the result is written
\* and the latch closed before the status is stored.
AsyncScopeFired(p) ==
    /\ pc[p] = "as_select"
    /\ Fired(asyncCtx[call[p].tid])
    /\ tres' = [tres EXCEPT ![call[p].tid] = MkTask(call[p].tid, "nil", "canceled", 0)]
    /\ closes' = [closes EXCEPT ![call[p].tid] = @ + 1]
    /\ Goto(p, "as_cx_status")
    /\ UNCHANGED <<mgr, dt, asyncCtx, taskCanceled, runnable, env, alloc, call,
                   worker, wstatus, wstart, calls, runs>>

\* manager.go:235-236
AsyncScopeStatus(p) ==
    /\ pc[p] = "as_cx_status"
    /\ taskStatuses' = [taskStatuses EXCEPT ![call[p].tid] = StatusCanceled]
    /\ AsyncReturn(p)
    /\ UNCHANGED <<tasks, tasksResult, tasksCancel, sem, wg, shuttingDown, objs, env,
                   alloc, worker, wstatus, wstart, calls, runs>>

\* manager.go:239-240: taskCtx is derived from the scope given to Async, and
\* its CancelFunc stored.  A scope derived from one that has fired is fired
\* from the start, with the error of its parent.
AsyncStoreCancel(p) ==
    /\ pc[p] = "as_cancel"
    /\ scopes' = [scopes EXCEPT ![TaskScope(call[p].tid)] =
                     IF Fired(asyncCtx[call[p].tid]) THEN scopes[asyncCtx[call[p].tid]]
                     ELSE "live"]
    /\ tasksCancel' = tasksCancel \cup {call[p].tid}
    /\ Goto(p, "as_spawn")
    /\ UNCHANGED <<tasks, tasksResult, taskStatuses, sem, wg, shuttingDown, objs, now,
                   alloc, call, worker, wstatus, wstart, calls, runs>>

\* manager.go:242-244 and 286: wg.Add(1), the go statement, the return.
AsyncSpawn(p) ==
    /\ pc[p] = "as_spawn"
    /\ wg' = wg + 1
    /\ worker' = [worker EXCEPT ![call[p].tid] = "w_start"]
    /\ AsyncReturn(p)
    /\ UNCHANGED <<tasks, tasksResult, tasksCancel, taskStatuses, sem, shuttingDown,
                   objs, env, alloc, wstatus, wstart, calls, runs>>

----------------------------------------------------------------------------
\* The worker goroutine (manager.go:244-284).

\* manager.go:247, 263 and the call of runnable.Run at 264
WorkerStart(id) ==
    /\ worker[id] = "w_start"
    /\ wstart' = [wstart EXCEPT ![id] = now]
    /\ taskStatuses' = [taskStatuses EXCEPT ![id] = StatusRunning]
    /\ runs' = [runs EXCEPT ![runnable[id]] = @ + 1]
    /\ worker' = [worker EXCEPT ![id] = "w_exec"]
    /\ UNCHANGED <<tasks, tasksResult, tasksCancel, sem, wg, shuttingDown, objs, env,
                   alloc, pc, call, wstatus, calls, known, cancelRet, awaitFirst, sdLog,
                   refused, childIDs, wrap, cx, grp>>

\* manager.go:264-280: Run returns (out = "ok": a value and no error,
\* out = "err": an error); the status is computed and t.result filled.
WorkerReturn(id, out) ==
    /\ worker[id] = "w_exec"
    /\ LET canceled == out = "ok" /\ TaskCtxFired(id)
           status == IF out = "err" THEN StatusFailed
                     ELSE IF canceled THEN StatusCanceled
                     ELSE StatusCompleted
           err == IF out = "err" THEN "err" ELSE IF canceled THEN "canceled" ELSE "nil"
       IN /\ wstatus' = [wstatus EXCEPT ![id] = status]
          /\ tres' = [tres EXCEPT ![id] =
                        MkTask(id, IF out = "ok" THEN "val" ELSE "nil", err, wstart[id])]
    /\ worker' = [worker EXCEPT ![id] = "w_status"]
    /\ UNCHANGED <<mgr, closes, dt, asyncCtx, taskCanceled, runnable, env, alloc,
                   pc, call, wstart, hist>>

\* manager.go:281
WorkerStatus(id) ==
    /\ worker[id] = "w_status"
    /\ taskStatuses' = [taskStatuses EXCEPT ![id] = wstatus[id]]
    /\ worker' = [worker EXCEPT ![id] = "w_result"]
    /\ UNCHANGED <<tasks, tasksResult, tasksCancel, sem, wg, shuttingDown, objs, env,
                   alloc, pc, call, wstatus, wstart, hist>>

\* manager.go:282
WorkerResult(id) ==
    /\ worker[id] = "w_result"
    /\ tasksResult' = [tasksResult EXCEPT ![id] = tres[id]]
    /\ worker' = [worker EXCEPT ![id] = "w_close"]
    /\ UNCHANGED <<tasks, tasksCancel, taskStatuses, sem, wg, shuttingDown, objs, env,
                   alloc, pc, call, wstatus, wstart, hist>>

\* manager.go:283
WorkerClose(id) ==
    /\ worker[id] = "w_close"
    /\ closes' = [closes EXCEPT ![id] = @ + 1]
    /\ worker' = [worker EXCEPT ![id] = "w_wgdone"]
    /\ UNCHANGED <<mgr, tres, dt, asyncCtx, taskCanceled, runnable, env, alloc,
                   pc, call, wstatus, wstart, hist>>

\* manager.go:249-256: Run panicked; recover() fills t.result.
WorkerPanic(id) ==
    /\ worker[id] = "w_exec"
    /\ tres' = [tres EXCEPT ![id] = MkTask(id, "nil", "panicked", wstart[id])]
    /\ worker' = [worker EXCEPT ![id] = "wp_result"]
    /\ UNCHANGED <<mgr, closes, dt, asyncCtx, taskCanceled, runnable, env, alloc,
                   pc, call, wstatus, wstart, hist>>

\* manager.go:257
WorkerPanicResult(id) ==
    /\ worker[id] = "wp_result"
    /\ tasksResult' = [tasksResult EXCEPT ![id] = tres[id]]
    /\ worker' = [worker EXCEPT ![id] = "wp_status"]
    /\ UNCHANGED <<tasks, tasksCancel, taskStatuses, sem, wg, shuttingDown, objs, env,
                   alloc, pc, call, wstatus, wstart, hist>>

\* Mutant of WorkerPanicStatus: the panic guard leaves the status alone.
WorkerPanicStatus_NoStore(id) ==
    /\ worker[id] = "wp_status"
    /\ worker' = [worker EXCEPT ![id] = "wp_close"]
    /\ UNCHANGED <<mgr, objs, env, alloc, pc, call, wstatus, wstart, hist>>

\* manager.go:258
WorkerPanicStatus(id) ==
    /\ worker[id] = "wp_status"
    /\ taskStatuses' = [taskStatuses EXCEPT ![id] = StatusFailed]
    /\ worker' = [worker EXCEPT ![id] = "wp_close"]
    /\ UNCHANGED <<tasks, tasksResult, tasksCancel, sem, wg, shuttingDown, objs, env,
                   alloc, pc, call, wstatus, wstart, hist>>

\* Mutant of WorkerPanicClose: the panic guard does not close the latch.
WorkerPanicClose_NoClose(id) ==
    /\ worker[id] = "wp_close"
    /\ worker' = [worker EXCEPT ![id] = "w_wgdone"]
    /\ UNCHANGED <<mgr, objs, env, alloc, pc, call, wstatus, wstart, hist>>

\* manager.go:259
WorkerPanicClose(id) ==
    /\ worker[id] = "wp_close"
    /\ closes' = [closes EXCEPT ![id] = @ + 1]
    /\ worker' = [worker EXCEPT ![id] = "w_wgdone"]
    /\ UNCHANGED <<mgr, tres, dt, asyncCtx, taskCanceled, runnable, env, alloc,
                   pc, call, wstatus, wstart, hist>>

\* manager.go:246 (deferred): tm.wg.Done().  When the counter reaches zero
\* the goroutine blocked in wg.Wait is released; it runs later.
WorkerWgDone(id) ==
    /\ worker[id] = "w_wgdone"
    /\ wg' = wg - 1
    /\ pc' = IF wg = 1 /\ pc[Helper] = "h_asleep"
             THEN [pc EXCEPT ![Helper] = "h_woken"] ELSE pc
    /\ worker' = [worker EXCEPT ![id] = "w_release"]
    /\ UNCHANGED <<tasks, tasksResult, tasksCancel, taskStatuses, sem, shuttingDown,
                   objs, env, alloc, call, wstatus, wstart, hist>>

\* Mutant of WorkerRelease: the worker ends without the receive from the
\* semaphore channel.
WorkerRelease_KeepSlot(id) ==
    /\ worker[id] = "w_release"
    /\ worker' = [worker EXCEPT ![id] = "w_exit"]
    /\ UNCHANGED <<mgr, objs, env, alloc, pc, call, wstatus, wstart, hist>>

\* manager.go:245 (deferred): the receive from the semaphore channel
WorkerRelease(id) ==
    /\ worker[id] = "w_release"
    /\ sem' = sem - 1
    /\ worker' = [worker EXCEPT ![id] = "w_exit"]
    /\ UNCHANGED <<tasks, tasksResult, tasksCancel, taskStatuses, wg, shuttingDown,
                   objs, env, alloc, pc, call, wstatus, wstart, hist>>

----------------------------------------------------------------------------
\* Defer (manager.go:291-318).

\* manager.go:292
StartDefer(p, c) ==
    /\ CanStart(p)
    /\ calls < MaxCalls
    /\ nextID + reserved + 1 <= MaxTasks
    /\ calls' = calls + 1
    /\ nextID' = nextID + 1
    /\ reserved' = reserved + 1
    /\ call' = [call EXCEPT ![p] = [NewCall("Defer", c, NoID, 0) EXCEPT
                                        !.tid = nextID, !.sd = shuttingDown]]
    /\ Goto(p, "df_lock")
    /\ UNCHANGED <<mgr, objs, env, worker, wstatus, wstart, runs>>

\* manager.go:294-296 and 305
DeferLock(p) ==
    /\ pc[p] = "df_lock"
    /\ Goto(p, IF shuttingDown THEN "df_sd_task" ELSE "df_store")
    /\ UNCHANGED <<mgr, objs, env, alloc, call, worker, wstatus, wstart, calls, runs>>

\* manager.go:298-301: under shutdown an async entry is made, its result set
\* to the canceled error, its latch closed, and the entry stored.
DeferRefuseTask(p) ==
    /\ pc[p] = "df_sd_task"
    /\ tres' = [tres EXCEPT ![call[p].tid] = MkTask(call[p].tid, "nil", "canceled", 0)]
    /\ closes' = [closes EXCEPT ![call[p].tid] = @ + 1]
    /\ tasks' = [tasks EXCEPT ![call[p].tid] = "async"]
    /\ reserved' = reserved - 1
    /\ Goto(p, "df_sd_status")
    /\ UNCHANGED <<tasksResult, tasksCancel, taskStatuses, sem, wg, shuttingDown,
                   dt, asyncCtx, taskCanceled, runnable, env, nextID, call,
                   worker, wstatus, wstart, calls, runs>>

\* manager.go:302: tm.taskStatuses.Store(taskID, StatusCanceled)
DeferRefuseStatus(p) ==
    /\ pc[p] = "df_sd_status"
    /\ taskStatuses' = [taskStatuses EXCEPT ![call[p].tid] = StatusCanceled]
    /\ Goto(p, "df_sd_return")
    /\ UNCHANGED <<tasks, tasksResult, tasksCancel, sem, wg, shuttingDown, objs, env,
                   alloc, call, worker, wstatus, wstart, calls, runs>>

\* manager.go:303: return taskID
DeferRefuseReturn(p) ==
    /\ pc[p] = "df_sd_return"
    /\ Finish(p, "id", ZeroTask)
    /\ UNCHANGED <<mgr, objs, env, alloc, worker, wstatus, wstart, calls, runs>>

\* manager.go:307-314
DeferStore(p) ==
    /\ pc[p] = "df_store"
    /\ dt' = [dt EXCEPT ![call[p].tid] =
                [ctx |-> call[p].ctx, once |-> "idle", promotedID |-> NoID]]
    /\ tasks' = [tasks EXCEPT ![call[p].tid] = "deferred"]
    /\ Goto(p, "df_status")
    /\ UNCHANGED <<tasksResult, tasksCancel, taskStatuses, sem, wg, shuttingDown,
                   tres, closes, asyncCtx, taskCanceled, runnable, env, alloc, call,
                   worker, wstatus, wstart, calls, runs>>

\* manager.go:315-317
DeferStatus(p) ==
    /\ pc[p] = "df_status"
    /\ taskStatuses' = [taskStatuses EXCEPT ![call[p].tid] = StatusDeferred]
    /\ Finish(p, "id", ZeroTask)
    /\ UNCHANGED <<tasks, tasksResult, tasksCancel, sem, wg, shuttingDown, objs, env,
                   alloc, worker, wstatus, wstart, calls, runs>>

----------------------------------------------------------------------------
\* Await (manager.go:323-363).

\* The call records whether it begins after the latch of its ID resolved,
\* after a Cancel of its ID returned true, and with its scope fired while
\* that latch is not resolved.
StartAwait(p, c, i) ==
    /\ CanStart(p)
    /\ calls < MaxCalls
    /\ i \in known
    /\ calls' = calls + 1
    /\ call' = [call EXCEPT ![p] =
                  [NewCall("Await", c, i, 0) EXCEPT
                      !.aLatch = LatchResolved(i),
                      !.aCancel = (\E k \in 1..Len(cancelRet[i]) : cancelRet[i][k]),
                      !.aFired = (Fired(c) /\ ~LatchResolved(i))]]
    /\ Goto(p, "aw_load")
    /\ UNCHANGED <<mgr, objs, env, alloc, worker, wstatus, wstart, runs>>

\* manager.go:324-330 and 347: the lookup and the type switch
AwaitLoad(p) ==
    /\ pc[p] = "aw_load"
    /\ CASE tasks[call[p].id] = Absent ->
              /\ Finish(p, "notfound", ZeroTask)
         [] tasks[call[p].id] = "deferred" ->
              /\ Goto(p, "aw_once") /\ UNCHANGED call
         [] tasks[call[p].id] = "async" ->
              /\ Goto(p, "aw_select") /\ UNCHANGED call
    /\ UNCHANGED <<mgr, objs, env, alloc, worker, wstatus, wstart, calls, runs>>

\* Mutant of AwaitOnceEnter: the promotion is not guarded by a once; every
\* awaiter that finds the task not yet promoted promotes it.
AwaitOnceEnter_NoOnce(p) ==
    /\ pc[p] = "aw_once"
    /\ dt[call[p].id].once \in {"idle", "busy"}
    /\ dt' = [dt EXCEPT ![call[p].id].once = "busy"]
    /\ Goto(p, "as_store")
    /\ UNCHANGED <<mgr, tres, closes, asyncCtx, taskCanceled, runnable, env, alloc,
                   call, worker, wstatus, wstart, calls, runs>>

\* manager.go:332-334: the first caller of dt.once.Do runs the promotion,
\* which is a call of Async; the others block in Do until it has returned.
AwaitOnceEnter(p) ==
    /\ pc[p] = "aw_once"
    /\ dt[call[p].id].once = "idle"
    /\ dt' = [dt EXCEPT ![call[p].id].once = "busy"]
    /\ Goto(p, "as_store")
    /\ UNCHANGED <<mgr, tres, closes, asyncCtx, taskCanceled, runnable, env, alloc,
                   call, worker, wstatus, wstart, calls, runs>>

\* manager.go:333-336: Async has returned; promotedID is set, Do returns.
AwaitSetPromoted(p) ==
    /\ pc[p] = "aw_setprom"
    /\ dt' = [dt EXCEPT ![call[p].id].promotedID = call[p].tid,
                        ![call[p].id].once = "done"]
    /\ Goto(p, "aw_once")
    /\ UNCHANGED <<mgr, tres, closes, asyncCtx, taskCanceled, runnable, env, alloc,
                   call, worker, wstatus, wstart, calls, runs>>

\* manager.go:339-344: read promotedID and await it recursively
AwaitOnceDone(p) ==
    /\ pc[p] = "aw_once"
    /\ dt[call[p].id].once = "done"
    /\ call' = [call EXCEPT ![p].id = dt[call[p].id].promotedID]
    /\ Goto(p, "aw_load")
    /\ UNCHANGED <<mgr, objs, env, alloc, worker, wstatus, wstart, calls, runs>>

\* Mutant of AwaitLatch: Await returns what the result slot holds without
\* waiting for the latch.
AwaitLatch_NoWait(p) ==
    /\ pc[p] = "aw_select"
    /\ Finish(p, IF tres[call[p].id].error # "nil" THEN "failed" ELSE "ok",
              tres[call[p].id])
    /\ UNCHANGED <<mgr, objs, env, alloc, worker, wstatus, wstart, calls, runs>>

\* Mutant of AwaitLatch: Await gives up with an error when the Runnable of
\* the task it waits for is itself inside Await.
AwaitLatch_DetectCycle(p) ==
    /\ pc[p] = "aw_select"
    /\ \/ /\ closes[call[p].id] >= 1
          /\ Finish(p, IF tres[call[p].id].error # "nil" THEN "failed" ELSE "ok",
                    tres[call[p].id])
       \/ /\ closes[call[p].id] = 0
          /\ \E t \in Waiters : call[t].op = "Await" /\ pc[t] = "aw_select"
          /\ Finish(p, "failed", ZeroTask)
    /\ UNCHANGED <<mgr, objs, env, alloc, worker, wstatus, wstart, calls, runs>>

\* manager.go:350-354: the latch is closed
AwaitLatch(p) ==
    /\ pc[p] = "aw_select"
    /\ closes[call[p].id] >= 1
    /\ Finish(p, IF tres[call[p].id].error # "nil" THEN "failed" ELSE "ok",
              tres[call[p].id])
    /\ UNCHANGED <<mgr, objs, env, alloc, worker, wstatus, wstart, calls, runs>>

\* manager.go:355-356: the caller's scope has fired; Cancel is called
AwaitScope(p) ==
    /\ pc[p] = "aw_select"
    /\ Fired(call[p].ctx)
    /\ Goto(p, "cn_check")
    /\ UNCHANGED <<mgr, objs, env, alloc, call, worker, wstatus, wstart, calls, runs>>

----------------------------------------------------------------------------
\* Cancel (manager.go:494-515), called by a client or by Await.

StartCancel(p, i) ==
    /\ CanStart(p)
    /\ calls < MaxCalls
    /\ i \in known
    /\ calls' = calls + 1
    /\ call' = [call EXCEPT ![p] = NewCall("Cancel", "bg", i, 0)]
    /\ Goto(p, "cn_check")
    /\ UNCHANGED <<mgr, objs, env, alloc, worker, wstatus, wstart, runs>>

\* Where Cancel returns to: its caller, or Await (manager.go:357-361), which
\* returns the timeout or the canceled error, or the loop of AwaitAll or
\* AwaitAny that called it (manager.go:418-420, 459-463, 471-473, 481-483),
\* which goes on.
CancelReturn(p, b) ==
    IF call[p].op = "Await"
    THEN Finish(p, IF scopes[call[p].ctx] = "deadline" THEN "timeout" ELSE "canceled",
                ZeroTask)
    ELSE IF call[p].op \in {"AwaitAll", "AwaitAny"}
    THEN Goto(p, "ga_cancel") /\ UNCHANGED call
    ELSE Finish(p, IF b THEN "true" ELSE "false", ZeroTask)

\* manager.go:496-499
CancelCheck(p) ==
    /\ pc[p] = "cn_check"
    /\ IF taskStatuses[call[p].id] = Absent
       THEN CancelReturn(p, FALSE)
       ELSE Goto(p, "cn_fire") /\ UNCHANGED call
    /\ UNCHANGED <<mgr, objs, env, alloc, worker, wstatus, wstart, calls, runs>>

\* The scope that x was derived from.
Parent(x) == IF x = "cc" THEN grp.ctx ELSE asyncCtx[CHOOSE i \in IDs : TaskScope(i) = x]

\* Scope x was derived from s, or from a scope derived from s.
RECURSIVE Under(_, _)
Under(x, s) ==
    /\ x \in TaskScopes
    /\ scopes[x] # "none"
    /\ Parent(x) = s \/ Under(Parent(x), s)

\* cancel() of scope s has returned to the goroutine that called it: a
\* CancelFunc that finds its scope live fires it and then every scope
\* derived from it, one after the other, before it returns.  The scopes
\* derived from a taskCtx are the taskCtx of the tasks its Runnable submits
\* and the timeoutCtx of a WithTimeout wrapper (manager.go:166).
Propagated(s) ==
    /\ \A x \in TaskScopes : Under(x, s) => scopes[x] # "live"
    /\ \A i \in IDs : (TaskScope(i) = s \/ Under(TaskScope(i), s))
                           => wrap[i].tctx # "live"

\* The CancelFunc stored for ID i is called (manager.go:503, 613), when
\* there is one: its scope fires with context.Canceled unless it has fired
\* already.  The caller goes to position reach until cancel() has returned,
\* and then on from position next.
CallCancelFunc(p, i, reach, next) ==
    LET s == TaskScope(i)
        fires == i \in tasksCancel /\ scopes[s] = "live"
    IN /\ taskCanceled' = IF i \in tasksCancel
                          THEN [taskCanceled EXCEPT ![i] = TRUE] ELSE taskCanceled
       /\ scopes' = IF fires THEN [scopes EXCEPT ![s] = "canceled"] ELSE scopes
       /\ Goto(p, IF fires /\ ~Propagated(s) THEN reach ELSE next)

\* The thread is at position next, the cancel() it called at position reach
\* having returned.
Past(p, reach, next) ==
    \/ pc[p] = next
    \/ pc[p] = reach /\ Propagated(TaskScope(call[p].id))

\* manager.go:502-504
CancelFire(p) ==
    /\ pc[p] = "cn_fire"
    /\ CallCancelFunc(p, call[p].id, "cn_reach", "cn_status")
    /\ UNCHANGED <<mgr, tres, closes, dt, asyncCtx, runnable, now, alloc, call,
                   worker, wstatus, wstart, calls, runs>>

\* manager.go:507
CancelStatus(p) ==
    /\ Past(p, "cn_reach", "cn_status")
    /\ taskStatuses' = [taskStatuses EXCEPT ![call[p].id] = StatusCanceled]
    /\ Goto(p, "cn_delcancel")
    /\ UNCHANGED <<tasks, tasksResult, tasksCancel, sem, wg, shuttingDown, objs, env,
                   alloc, call, worker, wstatus, wstart, calls, runs>>

\* manager.go:508
CancelDelCancel(p) ==
    /\ pc[p] = "cn_delcancel"
    /\ tasksCancel' = tasksCancel \ {call[p].id}
    /\ Goto(p, "cn_delresult")
    /\ UNCHANGED <<tasks, tasksResult, taskStatuses, sem, wg, shuttingDown, objs, env,
                   alloc, call, worker, wstatus, wstart, calls, runs>>

\* manager.go:509
CancelDelResult(p) ==
    /\ pc[p] = "cn_delresult"
    /\ tasksResult' = [tasksResult EXCEPT ![call[p].id] = NoResult]
    /\ Goto(p, "cn_deltask")
    /\ UNCHANGED <<tasks, tasksCancel, taskStatuses, sem, wg, shuttingDown, objs, env,
                   alloc, call, worker, wstatus, wstart, calls, runs>>

\* Mutant of CancelDelTask: the entry is left in the task table.
CancelDelTask_KeepTask(p) ==
    /\ pc[p] = "cn_deltask"
    /\ CancelReturn(p, TRUE)
    /\ UNCHANGED <<mgr, objs, env, alloc, worker, wstatus, wstart, calls, runs>>

\* manager.go:510-514
CancelDelTask(p) ==
    /\ pc[p] = "cn_deltask"
    /\ tasks' = [tasks EXCEPT ![call[p].id] = Absent]
    /\ CancelReturn(p, TRUE)
    /\ UNCHANGED <<tasksResult, tasksCancel, taskStatuses, sem, wg, shuttingDown,
                   objs, env, alloc, worker, wstatus, wstart, calls, runs>>

\* manager.go:494-515: a step of the Cancel call that thread p executes,
\* be it called by a client, by Await (356) or by the loops of AwaitAll and
\* AwaitAny (419, 461, 472, 482).
CancelMove(p) ==
    \/ CancelCheck(p) \/ CancelFire(p) \/ CancelStatus(p)
    \/ CancelDelCancel(p) \/ CancelDelResult(p) \/ CancelDelTask(p)

----------------------------------------------------------------------------
\* sync.Map.Range, as Prune and Shutdown use it.  Range calls its callback
\* once per key, in any order, while other goroutines go on storing and
\* deleting keys.  A key that the map held when Range began and still holds
\* is visited; a key stored after Range began is visited or not (it is not
\* with the read-map iteration of sync.Map up to Go 1.23, it may be with the
\* later implementation); a key deleted before its visit is not visited.
\* The locals of the call hold the keys the map held at the start of the
\* Range (snap) and the keys visited so far (vis).

\* m.Load(i) finds a value, for the table named tab.
Present(tab, i) ==
    CASE tab = "tasks" -> tasks[i] # Absent
      [] tab = "cancels" -> i \in tasksCancel
      [] tab = "results" -> tasksResult[i] # NoResult
      [] tab = "statuses" -> taskStatuses[i] # Absent

Keys(tab) == {i \in IDs : Present(tab, i)}

\* Range may call its callback on key i next.
CanVisit(p, tab, i) == i \notin call[p].vis /\ Present(tab, i)

\* Range may return: it has visited every key it has to.
RangeDone(p, tab) == \A i \in call[p].snap : Present(tab, i) => i \in call[p].vis

----------------------------------------------------------------------------
\* Prune (manager.go:568-601).  The callback runs one map operation per
\* step.

StartPrune(p, ttl) ==
    /\ CanStart(p)
    /\ calls < MaxCalls
    /\ calls' = calls + 1
    /\ call' = [call EXCEPT ![p] =
                  [NewCall("Prune", "bg", NoID, ttl) EXCEPT !.snap = Keys("statuses")]]
    /\ Goto(p, "pr_range")
    /\ UNCHANGED <<mgr, objs, env, alloc, worker, wstatus, wstart, runs>>

\* manager.go:572-579: the callback reads the status of the next key
PruneVisit(p, i) ==
    /\ pc[p] = "pr_range"
    /\ CanVisit(p, "statuses", i)
    /\ LET active == taskStatuses[i] \in {StatusPending, StatusRunning, StatusDeferred}
       IN /\ call' = [call EXCEPT ![p].vis = @ \cup {i}, ![p].id = i]
          /\ Goto(p, IF active THEN "pr_range"
                     ELSE IF call[p].ttl > 0 THEN "pr_ttl" ELSE "pr_deltask")
    /\ UNCHANGED <<mgr, objs, env, alloc, worker, wstatus, wstart, calls, runs>>

\* manager.go:581-588
PruneTTL(p) ==
    /\ pc[p] = "pr_ttl"
    /\ LET r == tasksResult[call[p].id]
           keep == /\ r # NoResult
                   /\ r.time # 0
                   /\ now - r.time < call[p].ttl
       IN Goto(p, IF keep THEN "pr_range" ELSE "pr_deltask")
    /\ UNCHANGED <<mgr, objs, env, alloc, call, worker, wstatus, wstart, calls, runs>>

\* manager.go:591
PruneDelTask(p) ==
    /\ pc[p] = "pr_deltask"
    /\ tasks' = [tasks EXCEPT ![call[p].id] = Absent]
    /\ Goto(p, "pr_delcancel")
    /\ UNCHANGED <<tasksResult, tasksCancel, taskStatuses, sem, wg, shuttingDown,
                   objs, env, alloc, call, worker, wstatus, wstart, calls, runs>>

\* manager.go:592
PruneDelCancel(p) ==
    /\ pc[p] = "pr_delcancel"
    /\ tasksCancel' = tasksCancel \ {call[p].id}
    /\ Goto(p, "pr_delresult")
    /\ UNCHANGED <<tasks, tasksResult, taskStatuses, sem, wg, shuttingDown, objs, env,
                   alloc, call, worker, wstatus, wstart, calls, runs>>

\* manager.go:593
PruneDelResult(p) ==
    /\ pc[p] = "pr_delresult"
    /\ tasksResult' = [tasksResult EXCEPT ![call[p].id] = NoResult]
    /\ Goto(p, "pr_delstatus")
    /\ UNCHANGED <<tasks, tasksCancel, taskStatuses, sem, wg, shuttingDown, objs, env,
                   alloc, call, worker, wstatus, wstart, calls, runs>>

\* manager.go:594-597
PruneDelStatus(p) ==
    /\ pc[p] = "pr_delstatus"
    /\ taskStatuses' = [taskStatuses EXCEPT ![call[p].id] = Absent]
    /\ call' = [call EXCEPT ![p].n = @ + 1]
    /\ Goto(p, "pr_range")
    /\ UNCHANGED <<tasks, tasksResult, tasksCancel, sem, wg, shuttingDown, objs, env,
                   alloc, worker, wstatus, wstart, calls, runs>>

\* manager.go:598-600: Range returns
PruneEnd(p) ==
    /\ pc[p] = "pr_range"
    /\ RangeDone(p, "statuses")
    /\ Finish(p, "n", ZeroTask)
    /\ UNCHANGED <<mgr, objs, env, alloc, worker, wstatus, wstart, calls, runs>>

----------------------------------------------------------------------------
\* Shutdown (manager.go:605-648), called once, when the request ends.  Each
\* callback of its Range loops is one step.

StartShutdown(p, c) ==
    /\ CanStart(p)
    /\ calls < MaxCalls
    /\ ~sdLog.started
    /\ calls' = calls + 1
    /\ call' = [call EXCEPT ![p] = NewCall("Shutdown", c, NoID, 0)]
    /\ pc' = [pc EXCEPT ![p] = "sd_flag"]
    /\ sdLog' = [sdLog EXCEPT !.started = TRUE, !.before = known]
    /\ UNCHANGED <<mgr, objs, env, alloc, worker, wstatus, wstart, runs, known,
                   cancelRet, awaitFirst, refused, childIDs, wrap, cx, grp>>

\* manager.go:606-608
ShutdownFlag(p) ==
    /\ pc[p] = "sd_flag"
    /\ shuttingDown' = TRUE
    /\ Goto(p, "sd_range")
    /\ UNCHANGED <<tasks, tasksResult, tasksCancel, taskStatuses, sem, wg, objs, env,
                   alloc, call, worker, wstatus, wstart, calls, runs>>

\* A Range over the table tab begins, the call going to position label.
RangeBegin(p, tab, label) ==
    /\ call' = [call EXCEPT ![p].snap = Keys(tab), ![p].vis = {}]
    /\ Goto(p, label)

\* The callback of a Range was called on key i.
Visited(p, i) == call' = [call EXCEPT ![p].vis = @ \cup {i}]

\* manager.go:611: the Range over the status table begins
ShutdownRange(p) ==
    /\ pc[p] = "sd_range"
    /\ RangeBegin(p, "statuses", "sd_cancel")
    /\ UNCHANGED <<mgr, objs, env, alloc, worker, wstatus, wstart, calls, runs>>

\* manager.go:611-615: the callback on key i calls the CancelFunc stored
\* for i, when there is one
ShutdownCancelAll(p, i) ==
    /\ Past(p, "sd_reach", "sd_cancel")
    /\ CanVisit(p, "statuses", i)
    /\ CallCancelFunc(p, i, "sd_reach", "sd_cancel")
    /\ call' = [call EXCEPT ![p].vis = @ \cup {i}, ![p].id = i]
    /\ UNCHANGED <<mgr, tres, closes, dt, asyncCtx, runnable, now, alloc,
                   worker, wstatus, wstart, calls, runs>>

\* manager.go:616-622: the Range returns; the goroutine that waits for the
\* workers is started
ShutdownCancelEnd(p) ==
    /\ Past(p, "sd_reach", "sd_cancel")
    /\ RangeDone(p, "statuses")
    /\ pc' = [pc EXCEPT ![p] = "sd_wait", ![Helper] = "h_wait"]
    /\ UNCHANGED <<mgr, objs, env, alloc, call, worker, wstatus, wstart, hist>>

\* A step of Shutdown's goroutine that changes its position only.
HelperGoto(label) ==
    /\ pc' = [pc EXCEPT ![Helper] = label]
    /\ UNCHANGED <<mgr, objs, env, alloc, call, worker, wstatus, wstart, hist>>

\* manager.go:620: tm.wg.Wait() is called.  It returns at once when the
\* counter is zero; otherwise the goroutine registers as a waiter and
\* sleeps until a Done brings the counter to zero.
HelperWait ==
    /\ pc[Helper] = "h_wait"
    /\ HelperGoto(IF wg = 0 THEN "h_close" ELSE "h_asleep")

\* manager.go:620: the released goroutine runs, finds the state of the
\* WaitGroup zero, and Wait returns.
HelperWake ==
    /\ pc[Helper] = "h_woken"
    /\ wg = 0
    /\ HelperGoto("h_close")

\* manager.go:620 against 242: the released goroutine runs after an Async
\* that passed the shutdown check (manager.go:221-228) has called
\* wg.Add(1): Wait finds the state of the WaitGroup not zero and panics
\* ("sync: WaitGroup is reused before previous Wait has returned").  The
\* goroutine has no recover: the process ends, and every goroutine with it.
\* The panics "WaitGroup misuse" that Add and Done raise when they meet in
\* that window end the process in the same way.
HelperPanic ==
    /\ pc[Helper] = "h_woken"
    /\ wg # 0
    /\ pc' = [q \in DOMAIN pc |-> "crashed"]
    /\ worker' = [i \in IDs |-> IF worker[i] \in {"none", "w_exit"} THEN worker[i]
                                 ELSE "crashed"]
    /\ UNCHANGED <<mgr, objs, env, alloc, call, wstatus, wstart, hist>>

\* manager.go:621: close(done)
HelperClose ==
    /\ pc[Helper] = "h_close"
    /\ HelperGoto("h_closed")

\* A step of Shutdown's goroutine.
HelperStep == HelperWait \/ HelperWake \/ HelperPanic \/ HelperClose

\* The process has ended.
Crashed == pc[Helper] = "crashed"

\* manager.go:618-629: the select leaves through the arm `arm`
ShutdownLeave(p, arm) ==
    /\ pc' = [pc EXCEPT ![p] = "sd_purge"]
    /\ sdLog' = [sdLog EXCEPT !.arm = arm]
    /\ UNCHANGED <<mgr, objs, env, alloc, call, worker, wstatus, wstart, calls, runs,
                   known, cancelRet, awaitFirst, refused, childIDs, wrap, cx, grp>>

\* manager.go:624 and 627: done is closed
ShutdownWaitDone(p) ==
    /\ pc[p] = "sd_wait"
    /\ pc[Helper] = "h_closed"
    /\ ShutdownLeave(p, "done")

\* manager.go:625: the scope given to Shutdown has fired
ShutdownWaitScope(p) ==
    /\ pc[p] = "sd_wait"
    /\ Fired(call[p].ctx)
    /\ ShutdownLeave(p, "scope")

\* manager.go:632: the Range over the task table begins
ShutdownPurgeBegin(p) ==
    /\ pc[p] = "sd_purge"
    /\ RangeBegin(p, "tasks", "sd_tasks")
    /\ UNCHANGED <<mgr, objs, env, alloc, worker, wstatus, wstart, calls, runs>>

\* manager.go:632-635: the callback on key i deletes it
ShutdownPurgeTasks(p, i) ==
    /\ pc[p] = "sd_tasks"
    /\ CanVisit(p, "tasks", i)
    /\ tasks' = [tasks EXCEPT ![i] = Absent]
    /\ Visited(p, i)
    /\ Goto(p, "sd_tasks")
    /\ UNCHANGED <<tasksResult, tasksCancel, taskStatuses, sem, wg, shuttingDown,
                   objs, env, alloc, worker, wstatus, wstart, calls, runs>>

\* manager.go:635-636: the Range returns and the one over the CancelFuncs
\* begins
ShutdownTasksEnd(p) ==
    /\ pc[p] = "sd_tasks"
    /\ RangeDone(p, "tasks")
    /\ RangeBegin(p, "cancels", "sd_cancels")
    /\ UNCHANGED <<mgr, objs, env, alloc, worker, wstatus, wstart, calls, runs>>

\* manager.go:636-639
ShutdownPurgeCancels(p, i) ==
    /\ pc[p] = "sd_cancels"
    /\ CanVisit(p, "cancels", i)
    /\ tasksCancel' = tasksCancel \ {i}
    /\ Visited(p, i)
    /\ Goto(p, "sd_cancels")
    /\ UNCHANGED <<tasks, tasksResult, taskStatuses, sem, wg, shuttingDown, objs, env,
                   alloc, worker, wstatus, wstart, calls, runs>>

\* manager.go:639-640: the Range returns and the one over the results
\* begins
ShutdownCancelsEnd(p) ==
    /\ pc[p] = "sd_cancels"
    /\ RangeDone(p, "cancels")
    /\ RangeBegin(p, "results", "sd_results")
    /\ UNCHANGED <<mgr, objs, env, alloc, worker, wstatus, wstart, calls, runs>>

\* manager.go:640-643
ShutdownPurgeResults(p, i) ==
    /\ pc[p] = "sd_results"
    /\ CanVisit(p, "results", i)
    /\ tasksResult' = [tasksResult EXCEPT ![i] = NoResult]
    /\ Visited(p, i)
    /\ Goto(p, "sd_results")
    /\ UNCHANGED <<tasks, tasksCancel, taskStatuses, sem, wg, shuttingDown, objs, env,
                   alloc, worker, wstatus, wstart, calls, runs>>

\* manager.go:643-644: the Range returns and the one over the statuses
\* begins
ShutdownResultsEnd(p) ==
    /\ pc[p] = "sd_results"
    /\ RangeDone(p, "results")
    /\ RangeBegin(p, "statuses", "sd_statuses")
    /\ UNCHANGED <<mgr, objs, env, alloc, worker, wstatus, wstart, calls, runs>>

\* manager.go:644-647
ShutdownPurgeStatuses(p, i) ==
    /\ pc[p] = "sd_statuses"
    /\ CanVisit(p, "statuses", i)
    /\ taskStatuses' = [taskStatuses EXCEPT ![i] = Absent]
    /\ Visited(p, i)
    /\ Goto(p, "sd_statuses")
    /\ UNCHANGED <<tasks, tasksResult, tasksCancel, sem, wg, shuttingDown, objs, env,
                   alloc, worker, wstatus, wstart, calls, runs>>

\* manager.go:647-648: the Range returns, and Shutdown with it
ShutdownStatusesEnd(p) ==
    /\ pc[p] = "sd_statuses"
    /\ RangeDone(p, "statuses")
    /\ Finish(p, "void", ZeroTask)
    /\ UNCHANGED <<mgr, objs, env, alloc, worker, wstatus, wstart, calls, runs>>

----------------------------------------------------------------------------
\* AwaitAll (manager.go:367-427) and AwaitAny (manager.go:431-490).  Each
\* starts one waiter goroutine per position of the list, which awaits the ID
\* at that position under the child scope "cc", and then blocks in a select.
\* A select that finds arms ready takes any of them; a select that blocked is
\* resumed by the first event that makes an arm ready and takes that arm.

seen == <<known, cancelRet, awaitFirst, sdLog, refused, childIDs, wrap, cx>>

MaxList == Cardinality(Waiters)
WaiterOf(i) == IF i = 1 THEN "w1" ELSE "w2"
IndexOf(w) == CHOOSE i \in 1..MaxList : WaiterOf(i) = w

\* The lists of IDs a caller can pass: any IDs it has been handed, in any
\* order, repetitions included.
Lists(S) == UNION {[1..n -> S] : n \in 0..MaxList}

\* The lists that hold every ID of S once, in every order.
Orders(S) == {l \in [1..Cardinality(S) -> S] : \A i, j \in DOMAIN l : i # j => l[i] # l[j]}

\* The locals of an Await of ID i under scope c.
AwaitCall(c, i) ==
    [NewCall("Await", c, i, 0) EXCEPT
        !.aLatch = LatchResolved(i),
        !.aCancel = (\E k \in 1..Len(cancelRet[i]) : cancelRet[i][k])]

\* The caller of AwaitAll or AwaitAny is blocked in its select.
GroupParked == \E p \in Clients : pc[p] = "ga_parked"

\* cancel() of the child scope (manager.go:379, 415, 439, 456, 468, 478).
CancelChild == [scopes EXCEPT !["cc"] = IF @ = "live" THEN "canceled" ELSE @]

\* The entry of AwaitAll and AwaitAny up to the select: the empty list
\* returns at once; otherwise the child scope is derived from the caller's
\* and a waiter goroutine is started for every position.
StartGroup(p, op, c, ids) ==
    /\ CanStart(p)
    /\ calls < MaxCalls
    /\ grp.op = "none"
    /\ ids \in Lists(known)
    /\ calls' = calls + 1
    /\ grp' = [NoGroup EXCEPT !.op = op, !.ctx = c, !.ids = ids,
                              !.slots = [i \in 1..Len(ids) |-> ZeroTask],
                              !.arm = IF ids = <<>> THEN "empty" ELSE "none",
                              !.ret = IF ids = <<>> THEN "ok" ELSE "none"]
    /\ scopes' = IF ids = <<>> THEN scopes ELSE [scopes EXCEPT !["cc"] = scopes[c]]
    /\ call' = [q \in DOMAIN call |->
                  IF q = p THEN NewCall(op, c, NoID, 0)
                  ELSE IF q \in Waiters /\ IndexOf(q) <= Len(ids)
                       THEN AwaitCall("cc", ids[IndexOf(q)])
                       ELSE call[q]]
    /\ pc' = [q \in DOMAIN pc |->
                IF q = p THEN (IF ids = <<>> THEN "ga_ret" ELSE "ga_enter")
                ELSE IF q \in Waiters /\ IndexOf(q) <= Len(ids) THEN "aw_load"
                     ELSE pc[q]]
    /\ UNCHANGED <<mgr, objs, now, alloc, worker, wstatus, wstart, runs, seen>>

\* manager.go:367-403
StartAwaitAll(p, c, ids) == StartGroup(p, "AwaitAll", c, ids)

\* manager.go:431-451
StartAwaitAny(p, c, ids) == StartGroup(p, "AwaitAny", c, ids)

\* Mutant of WaiterDeliver: the waiter of AwaitAll stores its record in the
\* first position of the tasks slice, whatever its own position.
WaiterDeliver_FirstSlot(w) ==
    /\ w \in Waiters
    /\ grp.op # "none"
    /\ pc[w] = "idle"
    /\ call[w].op = "Await"
    /\ IndexOf(w) <= Len(grp.ids)
    /\ IndexOf(w) \notin grp.wdone
    /\ LET i == IndexOf(w)
           ok == call[w].ret = "ok"
           e == MkErr(call[w].ret, call[w].rec.error, grp.ids[i])
       IN grp' = [grp EXCEPT
               !.wdone = @ \cup {i},
               !.slots = IF grp.op = "AwaitAll" /\ ok
                         THEN [@ EXCEPT ![1] = call[w].rec] ELSE @,
               !.chan = IF grp.op = "AwaitAny" /\ ok THEN Append(@, call[w].rec) ELSE @,
               !.errs = IF ok THEN @ ELSE Append(@, e),
               !.first = IF @ # NoErr THEN @
                         ELSE IF ok THEN MkErr("ok", "nil", grp.ids[i]) ELSE e,
               !.wake = IF grp.op = "AwaitAny" /\ GroupParked /\ @ = "none"
                        THEN (IF ok THEN "task" ELSE "err") ELSE @]
    /\ UNCHANGED <<mgr, objs, env, alloc, thr, calls, runs, seen>>

\* manager.go:386-394 and 444-449: Await has returned to the waiter, which
\* sends the error on errs/errChan, or stores the record at its position of
\* the tasks slice (AwaitAll) or sends it on taskChan (AwaitAny), and ends.
\* The channels have room for every waiter, so the sends do not block.
WaiterDeliver(w) ==
    /\ w \in Waiters
    /\ grp.op # "none"
    /\ pc[w] = "idle"
    /\ call[w].op = "Await"
    /\ IndexOf(w) <= Len(grp.ids)
    /\ IndexOf(w) \notin grp.wdone
    /\ LET i == IndexOf(w)
           ok == call[w].ret = "ok"
           e == MkErr(call[w].ret, call[w].rec.error, grp.ids[i])
       IN grp' = [grp EXCEPT
               !.wdone = @ \cup {i},
               !.slots = IF grp.op = "AwaitAll" /\ ok
                         THEN [@ EXCEPT ![i] = call[w].rec] ELSE @,
               !.chan = IF grp.op = "AwaitAny" /\ ok THEN Append(@, call[w].rec) ELSE @,
               !.errs = IF ok THEN @ ELSE Append(@, e),
               !.first = IF @ # NoErr THEN @
                         ELSE IF ok THEN MkErr("ok", "nil", grp.ids[i]) ELSE e,
               !.wake = IF grp.op = "AwaitAny" /\ GroupParked /\ @ = "none"
                        THEN (IF ok THEN "task" ELSE "err") ELSE @]
    /\ UNCHANGED <<mgr, objs, env, alloc, thr, calls, runs, seen>>

\* manager.go:399-403: every waiter has ended; wg.Wait() returns and done
\* is closed.
AwaitAllCloseDone ==
    /\ grp.op = "AwaitAll"
    /\ grp.ids # <<>>
    /\ ~grp.closed
    /\ grp.wdone = 1..Len(grp.ids)
    /\ grp' = [grp EXCEPT !.closed = TRUE,
                          !.wake = IF GroupParked /\ @ = "none" THEN "done" ELSE @]
    /\ UNCHANGED <<mgr, objs, env, alloc, thr, calls, runs, seen>>

\* An arm of the select at manager.go:405 or 454 is taken: on arrival when
\* its channel is ready, after blocking when its channel woke the select.
ArmReady(p, arm, ready) ==
    \/ pc[p] = "ga_enter" /\ ready
    \/ pc[p] = "ga_parked" /\ grp.wake = arm

\* manager.go:405, 454: no arm is ready and the select blocks.
GroupPark(p) ==
    /\ pc[p] = "ga_enter"
    /\ ~Fired(grp.ctx)
    /\ grp.op = "AwaitAll" => ~grp.closed
    /\ grp.op = "AwaitAny" => grp.chan = <<>> /\ grp.errs = <<>>
    /\ pc' = [pc EXCEPT ![p] = "ga_parked"]
    /\ UNCHANGED <<mgr, objs, env, alloc, call, worker, wstatus, wstart, hist>>

\* An arm of the select that leads to the cancel loop: cancel() is called
\* and the loop starts at the first position.
TakeArm(p, g) ==
    /\ grp' = [g EXCEPT !.k = 1]
    /\ scopes' = CancelChild
    /\ pc' = [pc EXCEPT ![p] = "ga_cancel"]
    /\ UNCHANGED <<mgr, objs, now, alloc, call, worker, wstatus, wstart, calls, runs,
                   seen>>

\* The error the scope arm returns (manager.go:422-425, 485-488).
ScopeErr(c) == IF scopes[c] = "deadline" THEN "timeout" ELSE "canceled"

\* Mutant of AwaitAllDone: when errs holds an error, cancel() is called and
\* the loop that calls Cancel on every listed ID runs before the return.
AwaitAllDone_CancelSiblings(p) ==
    /\ call[p].op = "AwaitAll"
    /\ ArmReady(p, "done", grp.closed)
    /\ IF grp.errs # <<>>
       THEN TakeArm(p, [grp EXCEPT !.arm = "done", !.err = Head(grp.errs),
                                   !.ret = Head(grp.errs).cat, !.out = <<>>])
       ELSE /\ grp' = [grp EXCEPT !.arm = "done", !.ret = "ok", !.out = grp.slots]
            /\ pc' = [pc EXCEPT ![p] = "ga_ret"]
            /\ UNCHANGED <<mgr, objs, env, alloc, call, worker, wstatus, wstart,
                           calls, runs, seen>>

\* Mutant of AwaitAllDone: the tasks slice is returned whether or not errs
\* holds an error.
AwaitAllDone_IgnoreErrs(p) ==
    /\ call[p].op = "AwaitAll"
    /\ ArmReady(p, "done", grp.closed)
    /\ grp' = [grp EXCEPT !.arm = "done", !.ret = "ok", !.out = grp.slots]
    /\ pc' = [pc EXCEPT ![p] = "ga_ret"]
    /\ UNCHANGED <<mgr, objs, env, alloc, call, worker, wstatus, wstart, calls, runs,
                   seen>>

\* manager.go:406-412: done is closed; errs is closed, and its first error
\* is returned when it holds one, the tasks slice otherwise.
AwaitAllDone(p) ==
    /\ call[p].op = "AwaitAll"
    /\ ArmReady(p, "done", grp.closed)
    /\ grp' = [grp EXCEPT
                  !.arm = "done",
                  !.err = IF grp.errs # <<>> THEN Head(grp.errs) ELSE NoErr,
                  !.ret = IF grp.errs # <<>> THEN Head(grp.errs).cat ELSE "ok",
                  !.out = IF grp.errs # <<>> THEN <<>> ELSE grp.slots]
    /\ pc' = [pc EXCEPT ![p] = "ga_ret"]
    /\ UNCHANGED <<mgr, objs, env, alloc, call, worker, wstatus, wstart, calls, runs,
                   seen>>

\* Mutant of AwaitAllScope: the scope arm reports a cancellation whatever
\* ended the scope.
AwaitAllScope_NoDeadline(p) ==
    /\ call[p].op = "AwaitAll"
    /\ ArmReady(p, "scope", Fired(grp.ctx))
    /\ TakeArm(p, [grp EXCEPT !.arm = "scope", !.ret = "canceled"])

\* manager.go:414-415 and 421-425
AwaitAllScope(p) ==
    /\ call[p].op = "AwaitAll"
    /\ ArmReady(p, "scope", Fired(grp.ctx))
    /\ TakeArm(p, [grp EXCEPT !.arm = "scope", !.ret = ScopeErr(grp.ctx)])

\* manager.go:455-456 and 465
AwaitAnyTask(p) ==
    /\ call[p].op = "AwaitAny"
    /\ ArmReady(p, "task", grp.chan # <<>>)
    /\ TakeArm(p, [grp EXCEPT !.arm = "task", !.ret = "ok",
                              !.won = Head(grp.chan), !.chan = Tail(grp.chan)])

\* manager.go:467-468 and 475
AwaitAnyErr(p) ==
    /\ call[p].op = "AwaitAny"
    /\ ArmReady(p, "err", grp.errs # <<>>)
    /\ TakeArm(p, [grp EXCEPT !.arm = "err", !.ret = Head(grp.errs).cat,
                              !.err = Head(grp.errs), !.errs = Tail(grp.errs)])

\* manager.go:477-478 and 484-488
AwaitAnyScope(p) ==
    /\ call[p].op = "AwaitAny"
    /\ ArmReady(p, "scope", Fired(grp.ctx))
    /\ TakeArm(p, [grp EXCEPT !.arm = "scope", !.ret = ScopeErr(grp.ctx)])

\* manager.go:418-420, 459-463, 471-473, 481-483: the loop takes the next
\* ID of the list and calls Cancel on it; after a record was received, the
\* ID of that record is skipped.  Cancel runs step by step on the caller's
\* thread and returns to the loop.
GroupCancelNext(p) ==
    /\ pc[p] = "ga_cancel"
    /\ grp.k <= Len(grp.ids)
    /\ LET id == grp.ids[grp.k]
           skip == grp.arm = "task" /\ grp.won.id = id
       IN /\ grp' = [grp EXCEPT !.k = @ + 1,
                                !.canceled = IF skip THEN @ ELSE @ \cup {id}]
          /\ call' = [call EXCEPT ![p].id = IF skip THEN @ ELSE id]
          /\ pc' = [pc EXCEPT ![p] = IF skip THEN "ga_cancel" ELSE "cn_check"]
    /\ UNCHANGED <<mgr, objs, env, alloc, worker, wstatus, wstart, calls, runs, seen>>

\* The return of AwaitAll and AwaitAny (manager.go:369, 410-412, 423-425,
\* 433, 465, 475, 486-488), with the deferred cancel() of the child scope
\* (manager.go:379, 439).
GroupReturn(p) ==
    /\ \/ pc[p] = "ga_ret"
       \/ pc[p] = "ga_cancel" /\ grp.k > Len(grp.ids)
    /\ scopes' = IF grp.arm = "empty" THEN scopes ELSE CancelChild
    /\ Finish(p, grp.ret, grp.won)
    /\ UNCHANGED <<mgr, objs, now, alloc, worker, wstatus, wstart, calls, runs>>

----------------------------------------------------------------------------
\* The environment: a cancellable scope of the request fires, by
\* cancellation or by its deadline.  context.Background() never fires.  A
\* select of an AwaitAll or AwaitAny call blocked on the scope is woken.
\* The scopes derived from s are still live: the goroutine that fired s goes
\* on to fire them one by one (ScopeReach).  An Await call in progress under
\* s records that its scope fired while the latch of its ID was not
\* resolved.
FireScope(s, how) ==
    /\ s \in Scopes \ {"bg"}
    /\ ~Crashed
    /\ scopes[s] = "live"
    /\ scopes' = [scopes EXCEPT ![s] = how]
    /\ grp' = IF grp.ctx = s /\ GroupParked /\ grp.wake = "none"
               THEN [grp EXCEPT !.wake = "scope", !.early = TRUE]
               ELSE grp
    /\ call' = [q \in DOMAIN call |->
                  IF /\ call[q].op = "Await" /\ pc[q] # "idle" /\ call[q].ctx = s
                     /\ ~LatchResolved(call[q].arg)
                  THEN [call[q] EXCEPT !.aFired = TRUE]
                  ELSE call[q]]
    /\ UNCHANGED <<mgr, objs, now, alloc, pc, worker, wstatus, wstart, calls, runs,
                   known, cancelRet, awaitFirst, sdLog, refused, childIDs, wrap, cx>>

\* The cancellation of a scope reaches x, a scope derived from it
\* (context.WithCancel at manager.go:239, 378, 438): x fires with the error
\* of its parent, unless its own CancelFunc was called first.  The step is
\* taken by the goroutine that fired the parent, after the parent's Done
\* channel was closed, and one derived scope at a time.
ScopeReach(x) ==
    /\ x \in Derived
    /\ ~Crashed
    /\ scopes[x] = "live"
    /\ x = "cc" => grp.op # "none"
    /\ Fired(Parent(x))
    /\ scopes' = [scopes EXCEPT ![x] = scopes[Parent(x)]]
    /\ UNCHANGED <<mgr, objs, now, alloc, thr, hist>>

----------------------------------------------------------------------------
\* The request's thread submits tasks and makes any call, Shutdown included,
\* deferred tasks being submitted under context.Background(); the second
\* thread awaits while a call of the first is in progress, and calls
\* Shutdown while the first is blocked in Async on the full worker
\* semaphore.  Shutdown called at any other moment of a call in progress is
\* in NextShutdown.
Next ==
    \/ \E p \in {Main}, c \in Scopes : StartAsync(p, c)
    \/ \E p \in Clients : AsyncStore(p)
    \/ \E p \in Clients : AsyncPending(p)
    \/ \E p \in Clients : AsyncLock(p)
    \/ \E p \in Clients : AsyncRefuseStatus(p)
    \/ \E p \in Clients : AsyncRefuseClose(p)
    \/ \E p \in Clients : AsyncAcquire(p)
    \/ \E p \in Clients : AsyncScopeFired(p)
    \/ \E p \in Clients : AsyncScopeStatus(p)
    \/ \E p \in Clients : AsyncStoreCancel(p)
    \/ \E p \in Clients : AsyncSpawn(p)
    \/ \E i \in IDs : WorkerStart(i)
    \/ \E i \in IDs, out \in {"ok", "err"} : WorkerReturn(i, out)
    \/ \E i \in IDs : WorkerStatus(i)
    \/ \E i \in IDs : WorkerResult(i)
    \/ \E i \in IDs : WorkerClose(i)
    \/ \E i \in IDs : WorkerPanic(i)
    \/ \E i \in IDs : WorkerPanicResult(i)
    \/ \E i \in IDs : WorkerPanicStatus(i)
    \/ \E i \in IDs : WorkerPanicClose(i)
    \/ \E i \in IDs : WorkerWgDone(i)
    \/ \E i \in IDs : WorkerRelease(i)
    \/ StartDefer(Main, "bg")
    \/ \E p \in Clients : DeferLock(p)
    \/ \E p \in Clients : DeferRefuseTask(p)
    \/ \E p \in Clients : DeferRefuseStatus(p)
    \/ \E p \in Clients : DeferRefuseReturn(p)
    \/ \E p \in Clients : DeferStore(p)
    \/ \E p \in Clients : DeferStatus(p)
    \/ \E p \in Clients, c \in Scopes, i \in IDs : StartAwait(p, c, i)
    \/ \E p \in Clients : AwaitLoad(p)
    \/ \E p \in Clients : AwaitOnceEnter(p)
    \/ \E p \in Clients : AwaitSetPromoted(p)
    \/ \E p \in Clients : AwaitOnceDone(p)
    \/ \E p \in Clients : AwaitLatch(p)
    \/ \E p \in Clients : AwaitScope(p)
    \/ \E p \in {Main}, i \in IDs : StartCancel(p, i)
    \/ \E p \in Clients : CancelCheck(p)
    \/ \E p \in Clients : CancelFire(p)
    \/ \E p \in Clients : CancelStatus(p)
    \/ \E p \in Clients : CancelDelCancel(p)
    \/ \E p \in Clients : CancelDelResult(p)
    \/ \E p \in Clients : CancelDelTask(p)
    \/ \E p \in {Main}, ttl \in TTLs : StartPrune(p, ttl)
    \/ \E p \in Clients, i \in IDs : PruneVisit(p, i)
    \/ \E p \in Clients : PruneDelTask(p)
    \/ \E p \in Clients : PruneDelCancel(p)
    \/ \E p \in Clients : PruneDelResult(p)
    \/ \E p \in Clients : PruneDelStatus(p)
    \/ \E p \in Clients : PruneEnd(p)
    \/ \E p \in {Main}, c \in Scopes : StartShutdown(p, c)
    \/ pc[Main] = "as_select" /\ sem = WorkerLimit /\ StartShutdown("p2", "bg")
    \/ \E p \in Clients : ShutdownFlag(p)
    \/ \E p \in Clients : ShutdownRange(p)
    \/ \E p \in Clients, i \in IDs : ShutdownCancelAll(p, i)
    \/ \E p \in Clients : ShutdownCancelEnd(p)
    \/ HelperWait
    \/ HelperWake
    \/ HelperPanic
    \/ HelperClose
    \/ \E p \in Clients : ShutdownWaitDone(p)
    \/ \E p \in Clients : ShutdownWaitScope(p)
    \/ \E p \in Clients : ShutdownPurgeBegin(p)
    \/ \E p \in Clients, i \in IDs : ShutdownPurgeTasks(p, i)
    \/ \E p \in Clients : ShutdownTasksEnd(p)
    \/ \E p \in Clients, i \in IDs : ShutdownPurgeCancels(p, i)
    \/ \E p \in Clients : ShutdownCancelsEnd(p)
    \/ \E p \in Clients, i \in IDs : ShutdownPurgeResults(p, i)
    \/ \E p \in Clients : ShutdownResultsEnd(p)
    \/ \E p \in Clients, i \in IDs : ShutdownPurgeStatuses(p, i)
    \/ \E p \in Clients : ShutdownStatusesEnd(p)
    \/ \E s \in Scopes, how \in Hows : FireScope(s, how)
    \/ \E x \in TaskScopes : ScopeReach(x)

Spec == Init /\ [][Next]_vars

\* How the scope given to AwaitAll and AwaitAny fires: by cancellation or by
\* its deadline.
GroupHows == {"canceled", "deadline"}

\* The steps of Async, of its workers around Runnables whose outcomes are
\* drawn from outs, and of Await through the latch, for the request thread
\* and the waiter goroutines of AwaitAll and AwaitAny.  The tasks are
\* submitted under context.Background().
RunSteps(outs) ==
    \/ StartAsync(Main, "bg")
    \/ \E p \in Procs : AsyncStore(p)
    \/ \E p \in Procs : AsyncPending(p)
    \/ \E p \in Procs : AsyncLock(p)
    \/ \E p \in Procs : AsyncAcquire(p)
    \/ \E p \in Procs : AsyncStoreCancel(p)
    \/ \E p \in Procs : AsyncSpawn(p)
    \/ \E i \in IDs : WorkerStart(i)
    \/ \E i \in IDs, out \in outs : WorkerReturn(i, out)
    \/ \E i \in IDs : WorkerStatus(i)
    \/ \E i \in IDs : WorkerResult(i)
    \/ \E i \in IDs : WorkerClose(i)
    \/ \E i \in IDs : WorkerWgDone(i)
    \/ \E i \in IDs : WorkerRelease(i)
    \/ \E p \in Procs : AwaitLoad(p)
    \/ \E p \in Procs : AwaitLatch(p)
    \/ \E w \in Waiters : WaiterDeliver(w)
    \/ GroupPark(Main)
    \/ GroupReturn(Main)

\* The steps that follow the firing of the scope of an Await, and the loop
\* of AwaitAll and AwaitAny that calls Cancel on the listed IDs.
CancelSteps ==
    \/ \E p \in Procs : AwaitScope(p)
    \/ \E p \in Procs : CancelMove(p)
    \/ GroupCancelNext(Main)

\* The steps of Defer and of the promotion of a deferred task by Await.
DeferSteps ==
    \/ StartDefer(Main, "bg")
    \/ \E p \in Procs : DeferLock(p)
    \/ \E p \in Procs : DeferStore(p)
    \/ \E p \in Procs : DeferStatus(p)
    \/ \E p \in Procs : AwaitOnceEnter(p)
    \/ \E p \in Procs : AwaitSetPromoted(p)
    \/ \E p \in Procs : AwaitOnceDone(p)

\* The steps of AwaitAll under scope c, the scope arm apart.
AllSteps(c) ==
    \/ \E ids \in Orders(known) : StartAwaitAll(Main, c, ids)
    \/ AwaitAllCloseDone
    \/ AwaitAllDone(Main)

\* One request thread submits tasks with Async and Defer and then calls
\* AwaitAll on the list of the IDs it holds, in any order, under
\* context.Background(): the caller's scope never fires, the child scope
\* fires at the return of AwaitAll (manager.go:378-379), when every waiter
\* has returned (manager.go:399-402, 406), and Cancel is never called.
NextAll ==
    \/ RunSteps({"ok", "err"})
    \/ DeferSteps
    \/ AllSteps("bg")

SpecAll == Init /\ [][NextAll]_vars

\* One request thread submits tasks with Async, whose Runnables return
\* without error or not at all, and calls AwaitAll under a scope that is
\* canceled or reaches its deadline at any moment, or never; no other client
\* call runs, so that the only Cancel calls are those of AwaitAll and of its
\* waiters.
NextAllTimed ==
    \/ RunSteps({"ok"})
    \/ CancelSteps
    \/ AllSteps("s1")
    \/ AwaitAllScope(Main)
    \/ \E how \in GroupHows : FireScope("s1", how)
    \/ ScopeReach("cc")

SpecAllTimed == Init /\ [][NextAllTimed]_vars

\* The same with Runnables that return with or without an error, under a
\* scope that is canceled at any moment, or never.
NextAllFail ==
    \/ RunSteps({"ok", "err"})
    \/ CancelSteps
    \/ AllSteps("s1")
    \/ AwaitAllScope(Main)
    \/ \E how \in Hows : FireScope("s1", how)
    \/ ScopeReach("cc")

SpecAllFail == Init /\ [][NextAllFail]_vars

\* One request thread submits tasks with Async and Defer and then calls
\* AwaitAny on the list of the IDs it holds, in any order, under
\* context.Background(): the child scope fires when AwaitAny has received
\* a record or an error (manager.go:455, 468), and the waiters still inside
\* Await then call Cancel, as the loops of AwaitAny do.
NextAny ==
    \/ RunSteps({"ok", "err"})
    \/ CancelSteps
    \/ DeferSteps
    \/ \E ids \in Orders(known) : StartAwaitAny(Main, "bg", ids)
    \/ AwaitAnyTask(Main)
    \/ AwaitAnyErr(Main)

SpecAny == Init /\ [][NextAny]_vars

\* The steps of Async, its workers, Defer, Await and the Cancel that Await
\* calls, for the request threads.
AwaitSteps ==
    \/ StartAsync(Main, "bg")
    \/ StartDefer(Main, "bg")
    \/ \E p \in Clients : AsyncStore(p)
    \/ \E p \in Clients : AsyncPending(p)
    \/ \E p \in Clients : AsyncLock(p)
    \/ \E p \in Clients : AsyncAcquire(p)
    \/ \E p \in Clients : AsyncStoreCancel(p)
    \/ \E p \in Clients : AsyncSpawn(p)
    \/ \E i \in IDs : WorkerStart(i)
    \/ \E i \in IDs, out \in {"ok", "err"} : WorkerReturn(i, out)
    \/ \E i \in IDs : WorkerStatus(i)
    \/ \E i \in IDs : WorkerResult(i)
    \/ \E i \in IDs : WorkerClose(i)
    \/ \E i \in IDs : WorkerWgDone(i)
    \/ \E i \in IDs : WorkerRelease(i)
    \/ \E p \in Clients : DeferLock(p)
    \/ \E p \in Clients : DeferStore(p)
    \/ \E p \in Clients : DeferStatus(p)
    \/ \E p \in Clients : AwaitLoad(p)
    \/ \E p \in Clients : AwaitOnceEnter(p)
    \/ \E p \in Clients : AwaitSetPromoted(p)
    \/ \E p \in Clients : AwaitOnceDone(p)
    \/ \E p \in Clients : AwaitLatch(p)
    \/ \E p \in Clients : AwaitScope(p)
    \/ \E p \in Clients : CancelCheck(p)
    \/ \E p \in Clients : CancelFire(p)
    \/ \E p \in Clients : CancelStatus(p)
    \/ \E p \in Clients : CancelDelCancel(p)
    \/ \E p \in Clients : CancelDelResult(p)
    \/ \E p \in Clients : CancelDelTask(p)

\* Tasks are submitted with Async and Defer under context.Background() and
\* awaited, by one or two request threads at a time, under a scope that is
\* canceled or reaches its deadline at any moment or never.
NextAwait ==
    \/ AwaitSteps
    \/ \E p \in Clients, i \in IDs : StartAwait(p, "s1", i)
    \/ \E how \in GroupHows : FireScope("s1", how)

SpecAwait == Init /\ [][NextAwait]_vars

\* The same, where either request thread also calls Cancel on the IDs it
\* holds.
NextCancel ==
    \/ NextAwait
    \/ \E p \in Clients, i \in IDs : StartCancel(p, i)

SpecCancel == Init /\ [][NextCancel]_vars

\* Tasks are submitted with Async and Defer under context.Background() and
\* awaited by two request threads, each under a scope of its own: one that
\* is canceled or reaches its deadline at any moment or never, and
\* context.Background().
NextAwaitScopes ==
    \/ AwaitSteps
    \/ \E p \in Clients, c \in Scopes, i \in IDs : StartAwait(p, c, i)
    \/ \E how \in GroupHows : FireScope("s1", how)

SpecAwaitScopes == Init /\ [][NextAwaitScopes]_vars

\* A step of request thread p inside the call it is executing.
ClientStep(p) ==
    \/ AsyncStore(p) \/ AsyncPending(p) \/ AsyncLock(p)
    \/ AsyncAcquire(p) \/ AsyncStoreCancel(p) \/ AsyncSpawn(p)
    \/ DeferLock(p) \/ DeferStore(p) \/ DeferStatus(p)
    \/ AwaitLoad(p) \/ AwaitOnceEnter(p) \/ AwaitSetPromoted(p) \/ AwaitOnceDone(p)
    \/ AwaitLatch(p) \/ AwaitScope(p)
    \/ CancelCheck(p) \/ CancelFire(p) \/ CancelStatus(p)
    \/ CancelDelCancel(p) \/ CancelDelResult(p) \/ CancelDelTask(p)

\* A step of the worker goroutine of entry i other than the return of its
\* Runnable.
WorkerMove(i) ==
    \/ WorkerStart(i) \/ WorkerStatus(i) \/ WorkerResult(i)
    \/ WorkerClose(i) \/ WorkerWgDone(i) \/ WorkerRelease(i)

\* SpecAwait under the Go scheduler: every goroutine that can take a step of
\* the manager's code eventually takes it.  Nothing is assumed of the
\* Runnables: a Runnable may run forever.
SpecAwaitLive ==
    /\ SpecAwait
    /\ \A p \in Clients : WF_vars(ClientStep(p))
    /\ \A i \in IDs : WF_vars(WorkerMove(i))

----------------------------------------------------------------------------
\* Runnables that call the manager (manager_test.go:786-803): the Runnable of
\* entry i calls Async for a child under the scope it was given, then Await
\* on the child's ID, then returns.  The calls run on the worker goroutine;
\* their position and locals are those of a thread of Waiters, one per such
\* Runnable.  The scope the Runnable passes on is the one it was run with,
\* the taskCtx of entry i (manager.go:239, 264): the child is submitted and
\* awaited under it.

\* The Runnable of entry i has called Async.
Spawned(i) ==
    \/ childIDs[i] # NoID
    \/ \E t \in Waiters : call[t].op = "Async" /\ call[t].arg = i

\* The Await of the Runnable of entry i on its child has returned.
ChildAwaited(i) ==
    \E t \in Waiters : /\ pc[t] = "idle" /\ call[t].op = "Await"
                        /\ call[t].arg = childIDs[i] /\ call[t].ret # "none"

\* manager_test.go:792: the Runnable of entry i calls tm.Async(ctx, child),
\* ctx being the scope it was run with, the taskCtx of entry i.
NestSpawn(i, t) ==
    /\ worker[i] = "w_exec"
    /\ ~Spawned(i)
    /\ t \in Waiters /\ call[t].op = "none"
    /\ nextID + reserved <= MaxTasks
    /\ reserved' = reserved + 1
    /\ call' = [call EXCEPT ![t] = NewCall("Async", TaskScope(i), i, 0)]
    /\ Goto(t, "as_store")
    /\ UNCHANGED <<mgr, objs, env, nextID, worker, wstatus, wstart, calls, runs>>

\* manager_test.go:799-801: the Runnable of entry i calls tm.Await(ctx, cid)
\* on the ID of its child, ctx being the taskCtx of entry i.
NestAwait(i, t) ==
    /\ worker[i] = "w_exec"
    /\ childIDs[i] # NoID
    /\ t \in Waiters /\ pc[t] = "idle"
    /\ call[t].op = "Async" /\ call[t].arg = i
    /\ call' = [call EXCEPT ![t] = AwaitCall(TaskScope(i), childIDs[i])]
    /\ Goto(t, "aw_load")
    /\ UNCHANGED <<mgr, objs, env, alloc, worker, wstatus, wstart, calls, runs>>

\* manager_test.go:803 and manager.go:264: the Runnable of entry i returns,
\* after its Await when it spawned a child.
NestReturn(i, out) ==
    /\ Spawned(i) => ChildAwaited(i)
    /\ WorkerReturn(i, out)

\* A step of the Runnable of entry i.
RunnableStep(i) ==
    \/ \E t \in Waiters : NestSpawn(i, t)
    \/ \E t \in Waiters : NestAwait(i, t)
    \/ \E out \in {"ok", "err"} : NestReturn(i, out)

\* A step of a thread inside Async or Await, the scope arm of Await apart.
CallStep(p) ==
    \/ AsyncStore(p) \/ AsyncPending(p) \/ AsyncLock(p)
    \/ AsyncAcquire(p) \/ AsyncScopeFired(p) \/ AsyncScopeStatus(p)
    \/ AsyncStoreCancel(p) \/ AsyncSpawn(p)
    \/ AwaitLoad(p) \/ AwaitLatch(p)

\* A step of a thread on the scope arm of Await (manager.go:355-361) and in
\* the Cancel it calls.
ScopeArmStep(p) == AwaitScope(p) \/ CancelMove(p)

\* A request thread submits tasks with Async; every Runnable may spawn a
\* child and await it, both under the taskCtx it was run with; the request
\* threads await the IDs they hold under context.Background().
NextNest ==
    \/ \E c \in Scopes : StartAsync(Main, c)
    \/ \E p \in Clients, i \in IDs : StartAwait(p, "bg", i)
    \/ \E p \in Procs : CallStep(p)
    \/ \E t \in Waiters : ScopeArmStep(t)
    \/ \E i \in IDs : WorkerMove(i)
    \/ \E i \in IDs : RunnableStep(i)
    \/ \E how \in Hows : FireScope("s1", how)
    \/ \E x \in TaskScopes : ScopeReach(x)

SpecNest == Init /\ [][NextNest]_vars

\* SpecNest under the Go scheduler, with Runnables that take every step they
\* can take.  The scope of a submission need not ever fire.
SpecNestLive ==
    /\ SpecNest
    /\ \A p \in Procs : WF_vars(CallStep(p))
    /\ \A t \in Waiters : WF_vars(ScopeArmStep(t))
    /\ \A i \in IDs : WF_vars(WorkerMove(i))
    /\ \A i \in IDs : WF_vars(RunnableStep(i))
    /\ \A x \in TaskScopes : WF_vars(ScopeReach(x))

----------------------------------------------------------------------------
\* A step of thread p inside Async other than the select on the semaphore.
SubmitStep(p) ==
    \/ AsyncStore(p) \/ AsyncPending(p) \/ AsyncLock(p)
    \/ AsyncStoreCancel(p) \/ AsyncSpawn(p)

\* The request threads submit tasks with Async under context.Background(),
\* more than there are worker slots; the Runnables do not call the manager.
NextPool ==
    \/ \E p \in Clients : StartAsync(p, "bg")
    \/ \E p \in Clients : SubmitStep(p)
    \/ \E p \in Clients : AsyncAcquire(p)
    \/ \E i \in IDs : WorkerMove(i)
    \/ \E i \in IDs, out \in {"ok", "err"} : WorkerReturn(i, out)

SpecPool == Init /\ [][NextPool]_vars

\* SpecPool under the Go scheduler, with Runnables that return.  A goroutine
\* blocked in the send on the semaphore channel waits in the channel's queue
\* of senders, which a receive serves first in, first out: a sender that
\* finds the channel not full again and again is eventually served.
SpecPoolLive ==
    /\ SpecPool
    /\ \A p \in Clients : WF_vars(SubmitStep(p))
    /\ \A p \in Clients : SF_vars(AsyncAcquire(p))
    /\ \A i \in IDs : WF_vars(WorkerMove(i))
    /\ \A i \in IDs : WF_vars(\E out \in {"ok", "err"} : WorkerReturn(i, out))

----------------------------------------------------------------------------
\* A step of the manager's code in NextAllFail: of a thread inside a call,
\* of a waiter goroutine, or of a worker around its Runnable.
AllMove ==
    \/ \E p \in Procs : SubmitStep(p) \/ AsyncAcquire(p)
    \/ \E p \in Procs : AwaitLoad(p) \/ AwaitLatch(p) \/ AwaitScope(p) \/ CancelMove(p)
    \/ \E i \in IDs : WorkerMove(i)
    \/ \E w \in Waiters : WaiterDeliver(w)
    \/ GroupPark(Main) \/ GroupCancelNext(Main) \/ GroupReturn(Main)
    \/ AwaitAllCloseDone \/ AwaitAllDone(Main) \/ AwaitAllScope(Main)

\* SpecAllFail under the Go scheduler: the manager's code goes on as long
\* as it has a step to take.  Nothing is assumed of the Runnables, which may
\* run forever, nor of the caller's scope, which need not ever fire.
SpecAllLive == SpecAllFail /\ WF_vars(AllMove)

----------------------------------------------------------------------------
\* Prune with and without a TTL, while the clock advances.

\* The TTLs given to Prune: none, and one step of the clock.
PruneTTLs == {0, 1}

\* The last reading of the clock.
MaxTime == 2

\* time.Now() advances.  Prune reads the clock once, at manager.go:569; the
\* clock is kept still while a Prune call runs, so that now is what the call
\* has read.
Tick ==
    /\ now < MaxTime
    /\ \A p \in Clients : call[p].op = "Prune" => pc[p] = "idle"
    /\ now' = now + 1
    /\ UNCHANGED <<mgr, objs, scopes, alloc, thr, hist>>

\* A step of thread p inside Prune.
PruneStep(p) ==
    \/ \E i \in IDs : PruneVisit(p, i)
    \/ PruneTTL(p)
    \/ PruneDelTask(p) \/ PruneDelCancel(p) \/ PruneDelResult(p) \/ PruneDelStatus(p)
    \/ PruneEnd(p)

\* A step of thread p inside Defer or the promotion of a deferred task.
PromoteStep(p) ==
    \/ DeferLock(p) \/ DeferStore(p) \/ DeferStatus(p)
    \/ AwaitOnceEnter(p) \/ AwaitSetPromoted(p) \/ AwaitOnceDone(p)

\* A request thread submits tasks with Async and Defer, awaits them and
\* calls Cancel and Prune, with any TTL, while workers run.
NextPruneCancel ==
    \/ StartAsync(Main, "bg")
    \/ StartDefer(Main, "bg")
    \/ \E p \in Clients, i \in IDs : StartAwait(p, "bg", i)
    \/ \E ttl \in PruneTTLs : StartPrune(Main, ttl)
    \/ \E p \in Clients : SubmitStep(p)
    \/ \E p \in Clients : AsyncAcquire(p)
    \/ \E p \in Clients : PromoteStep(p)
    \/ \E p \in Clients : AwaitLoad(p)
    \/ \E p \in Clients : AwaitLatch(p)
    \/ \E p \in Clients : PruneStep(p)
    \/ \E i \in IDs : WorkerMove(i)
    \/ \E i \in IDs, out \in {"ok", "err"} : WorkerReturn(i, out)
    \/ Tick
    \/ \E i \in IDs : StartCancel(Main, i)
    \/ \E p \in Clients : CancelMove(p)

SpecPruneCancel == Init /\ [][NextPruneCancel]_vars

\* The same, where Await is also called under a scope that may fire, so
\* that the scope arm of Await (manager.go:355-356) calls Cancel as well.
NextPrune ==
    \/ NextPruneCancel
    \/ \E p \in Clients, i \in IDs : StartAwait(p, "s1", i)
    \/ \E p \in Clients : AwaitScope(p)
    \/ \E how \in Hows : FireScope("s1", how)

SpecPrune == Init /\ [][NextPrune]_vars

\* One request thread makes its calls one after the other, and calls
\* Prune(0) only when no worker goroutine is left: no call is in progress
\* and no worker runs while Prune does.
NextQuiet ==
    \/ StartAsync(Main, "bg")
    \/ StartDefer(Main, "bg")
    \/ \E i \in IDs : StartAwait(Main, "bg", i)
    \/ \E i \in IDs : StartCancel(Main, i)
    \/ (\A i \in IDs : worker[i] \in {"none", "w_exit"}) /\ StartPrune(Main, 0)
    \/ SubmitStep(Main) \/ AsyncAcquire(Main) \/ PromoteStep(Main)
    \/ AwaitLoad(Main) \/ AwaitLatch(Main)
    \/ CancelMove(Main)
    \/ \E i \in IDs : PruneVisit(Main, i)
    \/ PruneDelTask(Main) \/ PruneDelCancel(Main) \/ PruneDelResult(Main)
    \/ PruneDelStatus(Main) \/ PruneEnd(Main)
    \/ \E i \in IDs : WorkerMove(i)
    \/ \E i \in IDs, out \in {"ok", "err"} : WorkerReturn(i, out)

SpecQuiet == Init /\ [][NextQuiet]_vars

----------------------------------------------------------------------------
\* Shutdown called by one goroutine while another is inside Async, Defer or
\* Await (manager.go:605-648 against 213-362).

\* A step of thread p inside Shutdown.
ShutdownStep(p) ==
    \/ ShutdownFlag(p) \/ ShutdownRange(p)
    \/ \E i \in IDs : ShutdownCancelAll(p, i)
    \/ ShutdownCancelEnd(p)
    \/ ShutdownWaitDone(p) \/ ShutdownWaitScope(p)
    \/ ShutdownPurgeBegin(p)
    \/ \E i \in IDs : ShutdownPurgeTasks(p, i)
    \/ ShutdownTasksEnd(p)
    \/ \E i \in IDs : ShutdownPurgeCancels(p, i)
    \/ ShutdownCancelsEnd(p)
    \/ \E i \in IDs : ShutdownPurgeResults(p, i)
    \/ ShutdownResultsEnd(p)
    \/ \E i \in IDs : ShutdownPurgeStatuses(p, i)
    \/ ShutdownStatusesEnd(p)

\* A step of thread p on the path of Async or Defer that finds the
\* shutting-down flag set (manager.go:221-227, 298-305).
RefuseStep(p) ==
    \/ AsyncRefuseStatus(p) \/ AsyncRefuseClose(p)
    \/ DeferRefuseTask(p) \/ DeferRefuseStatus(p) \/ DeferRefuseReturn(p)

\* The request thread submits tasks with Async and Defer and awaits them,
\* all under context.Background(); Shutdown is called by the request thread
\* between two of its calls, or by a second goroutine at any moment of a
\* call of the request thread, under a scope that may fire.
NextShutdown ==
    \/ StartAsync(Main, "bg")
    \/ StartDefer(Main, "bg")
    \/ \E i \in IDs : StartAwait(Main, "bg", i)
    \/ \E p \in Clients, c \in Scopes : StartShutdown(p, c)
    \/ \E p \in Clients : SubmitStep(p)
    \/ \E p \in Clients : AsyncAcquire(p)
    \/ \E p \in Clients : AwaitLoad(p)
    \/ \E p \in Clients : AwaitLatch(p)
    \/ \E p \in Clients : PromoteStep(p)
    \/ \E p \in Clients : RefuseStep(p)
    \/ \E p \in Clients : ShutdownStep(p)
    \/ HelperStep
    \/ \E i \in IDs : WorkerMove(i)
    \/ \E i \in IDs, out \in {"ok", "err"} : WorkerReturn(i, out)
    \/ \E how \in Hows : FireScope("s1", how)

SpecShutdown == Init /\ [][NextShutdown]_vars

----------------------------------------------------------------------------
\* Status (manager.go:519-543) and Task (manager.go:548-564), called by a
\* second goroutine while the request thread makes its calls and the workers
\* run.  Each load of a table is one step.

\* manager.go:115-134: Status.String().  A status is represented by its
\* name; a value that is no status of the table reads "unknown".
String(st) ==
    CASE st = StatusDeferred  -> "deferred"
      [] st = StatusPending   -> "pending"
      [] st = StatusRunning   -> "running"
      [] st = StatusCompleted -> "completed"
      [] st = StatusFailed    -> "failed"
      [] st = StatusCanceled  -> "canceled"
      [] OTHER                -> "unknown"

\* The call Status(i) begins.  The ID looked at is i, and on the recursive
\* call (manager.go:537) the promoted ID.
StartStatus(p, i) ==
    /\ CanStart(p)
    /\ i \in known
    /\ call' = [call EXCEPT ![p] = NewCall("Status", "bg", i, 0)]
    /\ Goto(p, "st_load")
    /\ UNCHANGED <<mgr, objs, env, alloc, worker, wstatus, wstart, calls, runs>>

\* manager.go:520-527 and 543: the status is loaded.  An ID the table does
\* not hold gives (StatusUnknown, ErrTaskNotFound); a status other than
\* Deferred is returned.
StatusLoad(p) ==
    /\ pc[p] = "st_load"
    /\ LET st == taskStatuses[call[p].id]
       IN IF st = Absent THEN Finish(p, "notfound", ZeroTask)
          ELSE IF st = StatusDeferred THEN Goto(p, "st_task") /\ UNCHANGED call
          ELSE Finish(p, st, ZeroTask)
    /\ UNCHANGED <<mgr, objs, env, alloc, worker, wstatus, wstart, calls, runs>>

\* manager.go:529-530 and 543: the entry is loaded from the task table.
\* When the table holds no entry, or one that is not a deferred task, the
\* status loaded before is returned.
StatusTask(p) ==
    /\ pc[p] = "st_task"
    /\ IF tasks[call[p].id] = "deferred"
       THEN Goto(p, "st_prom") /\ UNCHANGED call
       ELSE Finish(p, StatusDeferred, ZeroTask)
    /\ UNCHANGED <<mgr, objs, env, alloc, worker, wstatus, wstart, calls, runs>>

\* manager.go:333-335: dt.promotedMu is held by the Await that promotes
\* deferred task d, from its entry into once.Do, across the call of Async,
\* until promotedID is set.
PromotedMuHeld(d) == dt[d].once = "busy"

\* manager.go:531-538 and 543: promotedID is read under promotedMu, which
\* Status waits for while the promoting Await holds it.  When promotedID is
\* set Status is called on it; otherwise Deferred is returned.
StatusPromoted(p) ==
    /\ pc[p] = "st_prom"
    /\ ~PromotedMuHeld(call[p].id)
    /\ IF dt[call[p].id].promotedID # NoID
       THEN /\ call' = [call EXCEPT ![p].id = dt[call[p].id].promotedID]
            /\ Goto(p, "st_load")
       ELSE Finish(p, StatusDeferred, ZeroTask)
    /\ UNCHANGED <<mgr, objs, env, alloc, worker, wstatus, wstart, calls, runs>>

\* The call Task(i) begins.
StartTask(p, i) ==
    /\ CanStart(p)
    /\ i \in known
    /\ call' = [call EXCEPT ![p] = NewCall("Task", "bg", i, 0)]
    /\ Goto(p, "tk_status")
    /\ UNCHANGED <<mgr, objs, env, alloc, worker, wstatus, wstart, calls, runs>>

\* manager.go:550-553: the status is loaded and kept in the local `status`.
TaskStatus(p) ==
    /\ pc[p] = "tk_status"
    /\ IF taskStatuses[call[p].id] = Absent
       THEN Finish(p, "notfound", ZeroTask)
       ELSE /\ call' = [call EXCEPT ![p].st = taskStatuses[call[p].id]]
            /\ Goto(p, "tk_result")
    /\ UNCHANGED <<mgr, objs, env, alloc, worker, wstatus, wstart, calls, runs>>

\* manager.go:556-563: the result is loaded; the Task returned is the
\* result, when there is one, with the text of the status loaded before.
TaskResult(p) ==
    /\ pc[p] = "tk_result"
    /\ Finish(p, String(call[p].st),
              IF tasksResult[call[p].id] # NoResult THEN tasksResult[call[p].id]
              ELSE ZeroTask)
    /\ UNCHANGED <<mgr, objs, env, alloc, worker, wstatus, wstart, calls, runs>>

\* manager.go:519-543: what the steps StatusLoad, StatusTask and
\* StatusPromoted of a call Status(i) return when they are taken in the
\* current state one after the other, no other goroutine taking a step in
\* between.  Where the call would wait for dt.promotedMu (manager.go:531),
\* held by a promoting Await, it does not return alone: the value is Blocked.
Blocked == "blocked"

RECURSIVE StatusAlone(_)
StatusAlone(i) ==
    IF taskStatuses[i] = Absent THEN StatusUnknown
    ELSE IF taskStatuses[i] = StatusDeferred /\ tasks[i] = "deferred"
         THEN IF PromotedMuHeld(i) THEN Blocked
              ELSE IF dt[i].promotedID # NoID THEN StatusAlone(dt[i].promotedID)
              ELSE StatusDeferred
         ELSE taskStatuses[i]

\* manager.go:548-564: what the steps TaskStatus and TaskResult of a call
\* Task(i) return when they are taken in the current state one after the
\* other: the record, its Status field and the error.
TaskAlone(i) ==
    IF taskStatuses[i] = Absent
    THEN [rec |-> ZeroTask, status |-> String(StatusUnknown), err |-> "notfound"]
    ELSE IF tasksResult[i] # NoResult
         THEN [rec |-> tasksResult[i], status |-> String(taskStatuses[i]), err |-> "nil"]
         ELSE [rec |-> ZeroTask, status |-> String(taskStatuses[i]), err |-> "nil"]

\* The ID the second goroutine asks for: the first one handed out.
Watched == {1}

\* The request thread submits tasks with Async and Defer under
\* context.Background(), awaits them and calls Cancel, while a second
\* goroutine calls Status and Task.
NextStatus ==
    \/ StartAsync(Main, "bg")
    \/ StartDefer(Main, "bg")
    \/ \E i \in IDs : StartAwait(Main, "bg", i)
    \/ \E i \in IDs : StartCancel(Main, i)
    \/ SubmitStep(Main) \/ AsyncAcquire(Main) \/ PromoteStep(Main)
    \/ AwaitLoad(Main) \/ AwaitLatch(Main)
    \/ CancelMove(Main)
    \/ \E i \in IDs : WorkerMove(i)
    \/ \E i \in IDs, out \in {"ok", "err"} : WorkerReturn(i, out)
    \/ \E i \in Watched : StartStatus("p2", i)
    \/ StatusLoad("p2") \/ StatusTask("p2") \/ StatusPromoted("p2")
    \/ \E i \in Watched : StartTask("p2", i)
    \/ TaskStatus("p2") \/ TaskResult("p2")

SpecStatus == Init /\ [][NextStatus]_vars

----------------------------------------------------------------------------
\* The wrapper combinators WithRetry and WithTimeout (manager.go:139-190), as
\* the Runnable of a task.  The scope ctx a Runnable is run with is the
\* taskCtx of its entry (manager.go:239, 264).

\* The largest number of retries given to WithRetry.
MaxRetries == 2

\* taskCtx.Err() once taskCtx has fired: the error of the parent scope when
\* the parent's cancellation reached it first, context.Canceled when its
\* CancelFunc was called first.
CtxErr(id) == scopes[TaskScope(id)]

\* The error the inner Runnable returns at the attempt of index k.
AttemptErr(k) == CASE k = 0 -> "e0" [] k = 1 -> "e1" [] OTHER -> "e2"

\* manager.go:158: fmt.Errorf("after %d retries: %w", retries, lastErr)
Exhausted(e) ==
    CASE e = "e0" -> "retries:e0" [] e = "e1" -> "retries:e1" [] OTHER -> "retries:e2"

\* manager.go:264-280, for a Runnable that is a wrapper: Run returns val and
\* err; the status is computed and t.result filled.
WrapperReturn(id, val, err) ==
    /\ worker[id] = "w_exec"
    /\ LET canceled == err = "nil" /\ TaskCtxFired(id)
           status == IF err # "nil" THEN StatusFailed
                     ELSE IF canceled THEN StatusCanceled
                     ELSE StatusCompleted
           e == IF err # "nil" THEN err ELSE IF canceled THEN "canceled" ELSE "nil"
       IN /\ wstatus' = [wstatus EXCEPT ![id] = status]
          /\ tres' = [tres EXCEPT ![id] = MkTask(id, val, e, wstart[id])]
    /\ worker' = [worker EXCEPT ![id] = "w_status"]
    /\ UNCHANGED <<mgr, closes, dt, asyncCtx, taskCanceled, runnable, env, alloc,
                   pc, call, wstart, calls, runs, known, cancelRet, awaitFirst,
                   sdLog, refused, childIDs, cx, grp>>

\* The steps of a wrapper that do not return from it.
WrapperStep(id, w) ==
    /\ wrap' = [wrap EXCEPT ![id] = w]
    /\ UNCHANGED <<mgr, objs, env, alloc, thr, calls, runs, known, cancelRet,
                   awaitFirst, sdLog, refused, childIDs, cx, grp>>

\* manager.go:140-142: the worker calls Run of WithRetry(r, n, backoff),
\* with backoff > 0.
RetryBegin(id, n) ==
    /\ worker[id] = "w_exec"
    /\ wrap[id].kind = "none"
    /\ WrapperStep(id, [NoWrap EXCEPT !.kind = "retry", !.pos = "attempt",
                                       !.retries = n])

\* manager.go:143-150 and 158: one call of runnable.Run, which returns a
\* value (out = "ok") or an error.  After a failure that is not the last,
\* time.After starts the timer of the backoff wait.
RetryAttempt(id, out) ==
    /\ wrap[id].kind = "retry"
    /\ wrap[id].pos = "attempt"
    /\ LET w == wrap[id]
           e == AttemptErr(w.i)
       IN IF out = "ok"
          THEN /\ wrap' = [wrap EXCEPT ![id] = [w EXCEPT !.tries = @ + 1, !.pos = "done",
                                                          !.val = "val"]]
               /\ WrapperReturn(id, "val", "nil")
          ELSE IF w.i < w.retries
          THEN WrapperStep(id, [w EXCEPT !.tries = @ + 1, !.lastErr = e,
                                         !.pos = "enter", !.timer = "armed",
                                         !.pre = TaskCtxFired(id), !.late = FALSE])
          ELSE /\ wrap' = [wrap EXCEPT ![id] = [w EXCEPT !.tries = @ + 1, !.lastErr = e,
                                                          !.pos = "done",
                                                          !.err = Exhausted(e)]]
               /\ WrapperReturn(id, "nil", Exhausted(e))

\* The timer of time.After elapses.  A wrapper blocked in the select is
\* resumed by the first event: by the timer when the scope has not fired,
\* and then it goes on to the next attempt.
RetryTimer(id) ==
    /\ wrap[id].kind = "retry"
    /\ wrap[id].timer = "armed"
    /\ IF wrap[id].pos = "parked"
       THEN /\ ~TaskCtxFired(id)
            /\ WrapperStep(id, [wrap[id] EXCEPT !.timer = "off", !.i = @ + 1,
                                                  !.pos = "attempt"])
       ELSE /\ wrap[id].pos = "enter"
            /\ WrapperStep(id, [wrap[id] EXCEPT !.timer = "fired",
                                                  !.late = TaskCtxFired(id)])

\* manager.go:151: the select finds no arm ready and blocks.
RetryPark(id) ==
    /\ wrap[id].kind = "retry"
    /\ wrap[id].pos = "enter"
    /\ wrap[id].timer = "armed"
    /\ ~TaskCtxFired(id)
    /\ WrapperStep(id, [wrap[id] EXCEPT !.pos = "parked"])

\* manager.go:152: the select finds the timer's channel ready.
RetryTimerArm(id) ==
    /\ wrap[id].kind = "retry"
    /\ wrap[id].pos = "enter"
    /\ wrap[id].timer = "fired"
    /\ WrapperStep(id, [wrap[id] EXCEPT !.timer = "off", !.i = @ + 1,
                                          !.pos = "attempt"])

\* manager.go:153-154: the select finds ctx.Done() ready, or is resumed by
\* it; the wrapper returns ctx.Err().
RetryScopeArm(id) ==
    /\ wrap[id].kind = "retry"
    /\ wrap[id].pos \in {"enter", "parked"}
    /\ TaskCtxFired(id)
    /\ wrap' = [wrap EXCEPT ![id] = [@ EXCEPT !.pos = "done", !.err = CtxErr(id)]]
    /\ WrapperReturn(id, "nil", CtxErr(id))

\* A step of the WithRetry wrapper of entry id.
RetryStep(id) ==
    \/ \E n \in 0..MaxRetries : RetryBegin(id, n)
    \/ \E out \in {"ok", "err"} : RetryAttempt(id, out)
    \/ RetryTimer(id)
    \/ RetryPark(id)
    \/ RetryTimerArm(id)
    \/ RetryScopeArm(id)

\* A request thread submits wrapped Runnables with Async under a scope that
\* may be canceled or reach its deadline at any moment, and awaits them.
WrapBase ==
    \/ StartAsync(Main, "s1")
    \/ \E p \in Clients : SubmitStep(p)
    \/ \E p \in Clients : AsyncAcquire(p)
    \/ \E p \in Clients : AsyncScopeFired(p)
    \/ \E p \in Clients : AsyncScopeStatus(p)
    \/ \E i \in IDs : WorkerMove(i)
    \/ \E p \in Clients, i \in IDs : StartAwait(p, "bg", i)
    \/ \E p \in Clients : AwaitLoad(p)
    \/ \E p \in Clients : AwaitLatch(p)
    \/ \E how \in GroupHows : FireScope("s1", how)
    \/ \E x \in TaskScopes : ScopeReach(x)

\* The Runnables are WithRetry wrappers.
NextRetry ==
    \/ WrapBase
    \/ \E i \in IDs : RetryStep(i)

SpecRetry == Init /\ [][NextRetry]_vars

\* timeoutCtx.Done() is closed: the deadline of timeoutCtx was reached
\* ("deadline"), its cancel was called ("released"), or the cancellation of
\* the scope it was derived from, the taskCtx of the entry, has reached it
\* ("deadline" when that scope ended by its own deadline, "canceled"
\* otherwise).
TimeoutCtxDone(id) == wrap[id].tctx # "live"

\* timeoutCtx.Err(): the error of what closed timeoutCtx.Done() first.
TimeoutCtxErr(id) ==
    CASE wrap[id].tctx = "deadline" -> "deadline"
      [] wrap[id].tctx \in {"canceled", "released"} -> "canceled"
      [] OTHER -> "nil"

\* What happened first of the send on resultChan and the closing of
\* timeoutCtx.Done().
FirstEvent(id) == wrap[id].first

\* manager.go:164-179: the worker calls Run of WithTimeout(r, d), with d > 0:
\* timeoutCtx is derived from the scope the wrapper was run with, fired from
\* the start when that scope has fired, and the goroutine that runs r is
\* started.
TimeoutBegin(id) ==
    /\ worker[id] = "w_exec"
    /\ wrap[id].kind = "none"
    /\ WrapperStep(id, [NoWrap EXCEPT
           !.kind = "timeout", !.pos = "enter", !.inner = "running",
           !.tctx = IF TaskCtxFired(id) THEN CtxErr(id) ELSE "live",
           !.first = IF TaskCtxFired(id) THEN "scope" ELSE "none"])

\* The cancellation of the taskCtx of the entry reaches timeoutCtx, which
\* was derived from it (manager.go:166): timeoutCtx fires with the error of
\* taskCtx, unless its own deadline was reached first.
TimeoutReach(id) ==
    /\ wrap[id].kind = "timeout"
    /\ wrap[id].tctx = "live"
    /\ TaskCtxFired(id)
    /\ WrapperStep(id, [wrap[id] EXCEPT
           !.tctx = CtxErr(id),
           !.first = IF @ = "none" THEN "scope" ELSE @])

\* manager.go:176-179: r returns a value (out = "ok") or an error, whenever
\* it chooses to, and the goroutine sends it on resultChan, whose buffer
\* takes it, and exits.
InnerReturn(id, out) ==
    /\ wrap[id].kind = "timeout"
    /\ wrap[id].inner = "running"
    /\ WrapperStep(id, [wrap[id] EXCEPT
           !.inner = "returned", !.chan = out,
           !.first = IF FirstEvent(id) = "none" THEN "result" ELSE FirstEvent(id)])

\* The deadline of timeoutCtx is reached before anything else has closed
\* timeoutCtx.Done().
TimeoutDeadline(id) ==
    /\ wrap[id].kind = "timeout"
    /\ wrap[id].tctx = "live"
    /\ WrapperStep(id, [wrap[id] EXCEPT
           !.tctx = "deadline",
           !.first = IF @ = "none" THEN "deadline" ELSE @])

\* manager.go:181: the select finds no arm ready and blocks.
TimeoutPark(id) ==
    /\ wrap[id].kind = "timeout"
    /\ wrap[id].pos = "enter"
    /\ wrap[id].chan = "empty"
    /\ ~TimeoutCtxDone(id)
    /\ WrapperStep(id, [wrap[id] EXCEPT !.pos = "parked"])

\* manager.go:182-183 and the deferred cancel of 167: the select finds
\* resultChan ready, or is resumed by the send; r's value and error are
\* returned.
TimeoutResultArm(id) ==
    /\ wrap[id].kind = "timeout"
    /\ wrap[id].pos \in {"enter", "parked"}
    /\ wrap[id].chan # "empty"
    /\ wrap[id].pos = "parked" => FirstEvent(id) = "result"
    /\ LET val == IF wrap[id].chan = "ok" THEN "val" ELSE "nil"
           err == IF wrap[id].chan = "ok" THEN "nil" ELSE AttemptErr(0)
       IN /\ wrap' = [wrap EXCEPT ![id] =
                         [@ EXCEPT !.pos = "done", !.val = val, !.err = err,
                                   !.first = FirstEvent(id),
                                   !.tctx = IF @ = "live" THEN "released" ELSE @]]
          /\ WrapperReturn(id, val, err)

\* manager.go:184-188 and the deferred cancel of 167: the select finds
\* timeoutCtx.Done() ready, or is resumed by it; the wrapper returns
\* ErrTaskTimeout when the deadline was reached, timeoutCtx.Err() otherwise.
TimeoutScopeArm(id) ==
    /\ wrap[id].kind = "timeout"
    /\ wrap[id].pos \in {"enter", "parked"}
    /\ TimeoutCtxDone(id)
    /\ wrap[id].pos = "parked" => FirstEvent(id) # "result"
    /\ LET err == IF TimeoutCtxErr(id) = "deadline" THEN "timeout"
                  ELSE TimeoutCtxErr(id)
       IN /\ wrap' = [wrap EXCEPT ![id] =
                         [@ EXCEPT !.pos = "done", !.err = err,
                                   !.first = FirstEvent(id),
                                   !.tctx = IF @ = "live" THEN "released" ELSE @]]
          /\ WrapperReturn(id, "nil", err)

\* A step of the WithTimeout wrapper of entry id or of the goroutine it
\* started.
TimeoutStep(id) ==
    \/ TimeoutBegin(id)
    \/ \E out \in {"ok", "err"} : InnerReturn(id, out)
    \/ TimeoutDeadline(id)
    \/ TimeoutReach(id)
    \/ TimeoutPark(id)
    \/ TimeoutResultArm(id)
    \/ TimeoutScopeArm(id)

\* The Runnables are WithTimeout wrappers.
NextTimeout ==
    \/ WrapBase
    \/ \E i \in IDs : TimeoutStep(i)

SpecTimeout == Init /\ [][NextTimeout]_vars

----------------------------------------------------------------------------
\* Circular await (manager_test.go:338-381): the Runnables of the first two
\* tasks each call Await on the other's ID, with the scope they were given.
\* The manager has two worker slots, so that both tasks can be Running.

\* The worker limit of the manager of the circular await.
CircleLimit == 2

\* The two tasks, the thread on which the Runnable of each makes its call,
\* and the task the Runnable of each awaits.
Circle == {1, 2}
Thread(i) == IF i = 1 THEN "w1" ELSE "w2"
Other(i) == 3 - i

\* manager.go:230-231, with workerLimit = CircleLimit.
AsyncAcquireWide(p) ==
    /\ pc[p] = "as_select"
    /\ sem < CircleLimit
    /\ sem' = sem + 1
    /\ Goto(p, "as_cancel")
    /\ UNCHANGED <<tasks, tasksResult, tasksCancel, taskStatuses, wg, shuttingDown,
                   objs, env, alloc, call, worker, wstatus, wstart, calls, runs>>

\* manager_test.go:346-347, 355-356: once both IDs are set, the Runnable of
\* task i calls tm.Await(ctx, other), ctx being the scope it was run with,
\* the taskCtx of entry i.
CircleAwait(i) ==
    /\ i \in Circle
    /\ worker[i] = "w_exec"
    /\ Circle \subseteq known
    /\ call[Thread(i)].op = "none"
    /\ call' = [call EXCEPT ![Thread(i)] = AwaitCall(TaskScope(i), Other(i))]
    /\ Goto(Thread(i), "aw_load")
    /\ UNCHANGED <<mgr, objs, env, alloc, worker, wstatus, wstart, calls, runs>>

\* manager_test.go:348-351, 357-360: the Await has returned; the Runnable
\* returns an error when Await did, a value otherwise.
CircleReturn(i) ==
    /\ i \in Circle
    /\ pc[Thread(i)] = "idle"
    /\ call[Thread(i)].op = "Await"
    /\ WorkerReturn(i, IF call[Thread(i)].ret = "ok" THEN "ok" ELSE "err")

\* The request thread submits the two tasks and awaits either under
\* context.Background(); the scope of a submission may fire at any moment,
\* and reaches the taskCtx of each task, under which its Runnable awaits the
\* other, in a step of its own.
NextCircle ==
    \/ \E c \in Scopes : StartAsync(Main, c)
    \/ SubmitStep(Main)
    \/ AsyncAcquireWide(Main)
    \/ AsyncScopeFired(Main) \/ AsyncScopeStatus(Main)
    \/ \E i \in IDs : WorkerMove(i)
    \/ \E i \in Circle : CircleAwait(i)
    \/ \E i \in Circle : CircleReturn(i)
    \/ \E i \in Circle : StartAwait(Main, "bg", i)
    \/ \E p \in {Main} \cup Waiters : AwaitLoad(p)
    \/ \E p \in {Main} \cup Waiters : AwaitLatch(p)
    \/ \E t \in Waiters : AwaitScope(t)
    \/ \E t \in Waiters : CancelMove(t)
    \/ \E how \in GroupHows : FireScope("s1", how)
    \/ \E x \in TaskScopes : ScopeReach(x)

SpecCircle == Init /\ [][NextCircle]_vars

----------------------------------------------------------------------------
\* The binding of the manager to the request's context (context.go:7-21).
\* A context is the sequence of the derivations made from
\* context.Background(), the innermost last.

\* The longest chain of derivations, and the most managers NewManager makes.
MaxDepth == 3
MaxFresh == 2

\* Two managers the request may bind, the first with tasks in its tables.
Bound == {MkManager(1, {1, 2}), MkManager(2, {}), NilManager}

\* The derivations: context.WithValue(ctx, ctxKey{}, m) (context.go:10), and
\* those that bind nothing under ctxKey{}: WithCancel, WithTimeout, WithValue
\* under another key.
Layers ==
    {[kind |-> "manager", mgr |-> m] : m \in Bound}
        \cup {[kind |-> k, mgr |-> NilManager] : k \in {"cancel", "value"}}

\* manager.go:193-210: the k-th manager made by NewManager, its tables empty.
NewManager(k) == MkManager(2 + k, {})

\* ctx.Value(ctxKey{}): the value bound by the innermost derivation that
\* binds ctxKey{}; found is FALSE when there is none (a nil interface).
RECURSIVE Value(_)
Value(c) ==
    IF c = <<>> THEN [found |-> FALSE, mgr |-> NilManager]
    ELSE IF c[Len(c)].kind = "manager" THEN [found |-> TRUE, mgr |-> c[Len(c)].mgr]
    ELSE Value(SubSeq(c, 1, Len(c) - 1))

\* A lookup that sees the innermost derivation only.
FromContext_TopOnly(c, k) ==
    IF c # <<>> /\ c[Len(c)].kind = "manager" THEN c[Len(c)].mgr
    ELSE NewManager(k + 1)

\* context.go:16-21: the type assertion succeeds for every *Manager, the nil
\* pointer included, and fails for the nil interface; k managers have been
\* made by NewManager so far.
FromContext(c, k) ==
    IF Value(c).found THEN Value(c).mgr ELSE NewManager(k + 1)

\* context.go:9-11
WithContext(m) ==
    /\ Len(cx.ctx) < MaxDepth
    /\ cx' = [cx EXCEPT !.ctx = Append(@, [kind |-> "manager", mgr |-> m])]
    /\ UNCHANGED <<mgr, objs, env, alloc, thr, calls, runs, known, cancelRet,
                   awaitFirst, sdLog, refused, childIDs, wrap, grp>>

\* A derivation that binds nothing under ctxKey{}.
Derive(k) ==
    /\ Len(cx.ctx) < MaxDepth
    /\ cx' = [cx EXCEPT !.ctx = Append(@, [kind |-> k, mgr |-> NilManager])]
    /\ UNCHANGED <<mgr, objs, env, alloc, thr, calls, runs, known, cancelRet,
                   awaitFirst, sdLog, refused, childIDs, wrap, grp>>

\* A call of FromContext on the request's context.
CallFromContext ==
    /\ Value(cx.ctx).found \/ cx.made < MaxFresh
    /\ cx' = [cx EXCEPT !.at = cx.ctx,
                        !.got = FromContext(cx.ctx, cx.made),
                        !.looked = TRUE,
                        !.made = IF Value(cx.ctx).found THEN @ ELSE @ + 1]
    /\ UNCHANGED <<mgr, objs, env, alloc, thr, calls, runs, known, cancelRet,
                   awaitFirst, sdLog, refused, childIDs, wrap, grp>>

NextContext ==
    \/ \E m \in Bound : WithContext(m)
    \/ \E k \in {"cancel", "value"} : Derive(k)
    \/ CallFromContext

SpecContext == Init /\ [][NextContext]_vars

----------------------------------------------------------------------------
\* Notions the properties are stated in.

Terminal == {StatusCompleted, StatusFailed, StatusCanceled}

\* The positions of Async between the acquisition of a slot and the go statement.
SlotLabels == {"as_cancel", "as_spawn"}

\* The positions of a worker goroutine that has not exited.
WorkerLive(i) == worker[i] \notin {"none", "w_exit"}

\* The number of slot holders: Async calls that acquired a slot and have not
\* yet started their worker, and workers that have not exited.
SlotHolders ==
    Cardinality({p \in Procs : pc[p] \in SlotLabels})
        + Cardinality({i \in IDs : WorkerLive(i)})

\* The async entry of ID i has not left through a close of its latch: its
\* Async call is before its exits, or its worker is before its close, or the
\* process ended (HelperPanic) while the call or the worker was on its way.
BeforeClose(i) ==
    \/ \E p \in Procs : /\ call[p].tid = i
                        /\ pc[p] \in {"as_pending", "as_lock", "as_sd_status",
                                      "as_sd_close", "as_select", "as_cancel", "as_spawn",
                                      "crashed"}
    \/ worker[i] \in {"w_start", "w_exec", "w_status", "w_result", "w_close",
                      "wp_result", "wp_status", "wp_close", "crashed"}

\* i is the ID of a deferred submission.
IsDeferred(i) == dt[i].ctx # "none"

\* The async entries made for the Runnable of submission d.
EntriesOf(d) == {i \in IDs : runnable[i] = d}

\* No client call is in progress and no worker is live.
Quiescent ==
    /\ \A p \in Procs : pc[p] = "idle"
    /\ \A i \in IDs : ~WorkerLive(i)

\* A Cancel of ID i is in progress or has returned.
CancelTouched(i) ==
    \/ cancelRet[i] # <<>>
    \/ \E p \in Procs : pc[p] \in {"cn_check", "cn_fire", "cn_reach", "cn_status",
                                   "cn_delcancel", "cn_delresult", "cn_deltask"}
                         /\ call[p].id = i

\* Status order: Deferred, Pending, Running, then the terminal statuses.
Rank(st) == CASE st = StatusDeferred -> 0
              [] st = StatusPending -> 1
              [] st = StatusRunning -> 2
              [] OTHER -> 3

\* A write of status b over status a moves forward.
Forward(a, b) == a \notin Terminal /\ Rank(b) > Rank(a)

----------------------------------------------------------------------------
\* C1: in every reachable state the number of slot holders (an Async call
\* from its slot acquisition on, then its worker until it exits) is at most
\* the worker limit, and it is the occupied count of the semaphore.
C1_WorkerLimit ==
    /\ SlotHolders <= WorkerLimit
    /\ sem = SlotHolders

\* C1 witness: the pool is full and a further Async call is blocked on it.
C1_Witness ==
    /\ SlotHolders = WorkerLimit
    /\ \E p \in Procs : pc[p] = "as_select"
    /\ \E i \in IDs : worker[i] = "w_exec"

\* C2: every write to the status table moves an ID's status forward along
\* Deferred -> Pending -> Running -> terminal (Pending -> Canceled allowed):
\* a terminal status is never replaced by a different status and Canceled is
\* never followed by Running.
C2_StatusMonotonic ==
    [][\A i \in IDs :
          (/\ taskStatuses[i] # Absent
           /\ taskStatuses'[i] # Absent
           /\ taskStatuses'[i] # taskStatuses[i])
          => Forward(taskStatuses[i], taskStatuses'[i])]_vars

\* C3: the latch of every async entry is closed at most once, and exactly
\* once when the entry's Async call has left through one of its exits
\* (shutdown refusal, scope fired during slot acquisition, the worker's
\* normal return, the worker's panic) or was made by Defer under shutdown.
C3_LatchClosedOnce ==
    \A i \in IDs :
        /\ closes[i] <= 1
        /\ (runnable[i] # NoID /\ ~BeforeClose(i)) => closes[i] = 1
        /\ (tasks[i] = "async" /\ runnable[i] = NoID) => closes[i] = 1

\* C3 witness: one entry left through the panic path and another through
\* the scope firing during slot acquisition, each with its latch closed once.
C3_Witness ==
    \E i, j \in IDs :
        /\ worker[i] = "w_exit" /\ tres[i].error = "panicked" /\ closes[i] = 1
        /\ runnable[j] # NoID /\ worker[j] = "none" /\ ~BeforeClose(j)
        /\ tres[j].error = "canceled" /\ closes[j] = 1

\* C4 as stated: once a deferred task has been promoted by an Await and the
\* manager is quiescent, its Runnable has been invoked exactly once.
C4_DeferRunsExactlyOnce ==
    \A d \in IDs :
        (IsDeferred(d) /\ dt[d].once = "done" /\ Quiescent) => runs[d] = 1

\* C4 amended: the Runnable of a deferred task is invoked zero times before
\* the first Await (no entry made for it, no slot held, status Deferred
\* unless canceled or shut down), at most once in total however many Await
\* calls are made, exactly once when the promotion's worker has started, and
\* every awaiter is routed to the one promoted ID.
C4_DeferRunsAtMostOnce ==
    \A d \in IDs : IsDeferred(d) =>
        /\ runs[d] <= 1
        /\ Cardinality(EntriesOf(d)) <= 1
        /\ dt[d].once = "idle" =>
              /\ runs[d] = 0
              /\ EntriesOf(d) = {}
              /\ (d \in known /\ ~CancelTouched(d) /\ ~sdLog.started)
                    => taskStatuses[d] = StatusDeferred
        /\ \A i \in EntriesOf(d) : worker[i] \notin {"none", "w_start"} => runs[d] = 1
        /\ \A p \in Procs :
              (call[p].op = "Await" /\ call[p].arg = d /\ pc[p] # "idle" /\ call[p].id # d)
                 => /\ call[p].id = dt[d].promotedID
                    /\ call[p].id \in EntriesOf(d)

\* C4 witness: two threads await the same deferred ID at once, both routed
\* to the promoted entry, whose Runnable has been invoked once.
C4_Witness ==
    \E d \in IDs :
        /\ IsDeferred(d)
        /\ runs[d] = 1
        /\ \A p \in Clients : /\ call[p].op = "Await" /\ call[p].arg = d
                            /\ pc[p] = "aw_select"
                            /\ call[p].id = dt[d].promotedID

\* C5: after Shutdown has returned, through either arm, and every worker
\* of an ID submitted before Shutdown has finished, no table holds an entry
\* for an ID submitted before Shutdown.  Stated for a Shutdown that is the
\* last call of the request's thread and that no call of another thread
\* overlaps, so that only the workers act after it.
C5_TablesEmptyAfterShutdown ==
    (/\ sdLog.returned
     /\ pc[Main] = "idle" /\ call[Main].op = "Shutdown"
     /\ \A p \in Procs \ {Main} : call[p].op = "none"
     /\ \A i \in sdLog.before : ~WorkerLive(i))
    => \A i \in sdLog.before :
          /\ tasks[i] = Absent
          /\ tasksResult[i] = NoResult
          /\ i \notin tasksCancel
          /\ taskStatuses[i] = Absent

\* C6: once the shutting-down flag is set, no Async call acquires a worker
\* slot.
C6_NoAdmissionAfterShutdown ==
    [][shuttingDown => sem' <= sem]_vars

\* C7: of two consecutive Cancel calls on an ID of which the first returned
\* true, the second returns false.
C7_SecondCancelFalse ==
    \A i \in IDs :
        (Len(cancelRet[i]) = 2 /\ cancelRet[i][1]) => ~cancelRet[i][2]

\* C8: an Await that starts after Cancel returned true for its ID finds no
\* entry: it never gets past the lookup and returns the not-found error,
\* whether or not the task's worker has finished.
C8_AwaitAfterCancelNotFound ==
    \A p \in Procs :
        (call[p].op = "Await" /\ call[p].aCancel) =>
            /\ pc[p] \in {"aw_load", "idle"}
            /\ pc[p] = "idle" => call[p].ret = "notfound"

\* C8 witness: such an Await of an ID submitted with Async has returned
\* not-found while the task's worker is still running.
C8_Witness ==
    \E p \in Procs :
        /\ call[p].op = "Await" /\ call[p].aCancel /\ pc[p] = "idle"
        /\ call[p].ret = "notfound"
        /\ runnable[call[p].arg] = call[p].arg
        /\ worker[call[p].arg] = "w_exec"

\* C9: after Cancel(id) has returned, no table holds an entry for id, also
\* once the canceled task's worker has finished.
C9_CanceledPurged ==
    \A i \in IDs :
        cancelRet[i] # <<>> =>
            /\ tasks[i] = Absent
            /\ i \notin tasksCancel
            /\ tasksResult[i] = NoResult
            /\ taskStatuses[i] = Absent

\* C10: every Await that begins after the latch of its ID has resolved
\* returns the record and the error category that the first such Await
\* returned, whatever scope it is given.
C10_AwaitIdempotent ==
    \A p \in Procs :
        (call[p].op = "Await" /\ call[p].aLatch /\ pc[p] = "idle")
            => [cat |-> call[p].ret, rec |-> call[p].rec] = awaitFirst[call[p].arg]

\* C11: the result slot of an async entry is not written after its latch
\* resolved; an Await under a scope that never fires returns only after the
\* latch resolved, with the content of the result slot and with an error
\* exactly when the slot holds one; hence any two Await calls of one ID
\* that returned through the latch, concurrent or not, returned the same
\* record and the same error.
C11_ConcurrentAwaitSame ==
    [][/\ \A i \in IDs : closes[i] >= 1 => tres'[i] = tres[i]
       /\ \A p \in Clients :
             (/\ pc[p] = "aw_select" /\ call[p].ctx = "bg"
              /\ pc'[p] = "idle")
             => /\ closes[call[p].id] >= 1
                /\ call'[p].rec = tres[call[p].id]
                /\ call'[p].ret = IF tres[call[p].id].error = "nil" THEN "ok" ELSE "failed"
       /\ \A p, q \in Clients :
             (/\ pc[p] = "idle" /\ pc[q] = "idle"
              /\ call[p].op = "Await" /\ call[q].op = "Await"
              /\ call[p].arg = call[q].arg
              /\ call[p].ret \in {"ok", "failed"} /\ call[q].ret \in {"ok", "failed"})
             => call[p].ret = call[q].ret /\ call[p].rec = call[q].rec]_vars

\* C11 witness: while the request thread is still blocked in Await on an
\* Async task under context.Background(), a concurrent Await of the same ID
\* by the second thread has returned the task's value without error.
C11_Witness ==
    /\ pc[Main] = "aw_select" /\ call[Main].op = "Await" /\ call[Main].ctx = "bg"
    /\ \E q \in Clients \ {Main} :
          /\ pc[q] = "idle" /\ call[q].op = "Await"
          /\ call[q].arg = call[Main].arg
          /\ call[q].ret = "ok" /\ call[q].rec.result = "val"
          /\ call[q].rec = tres[call[Main].id]

\* The select of AwaitAll took the done arm with no error in errs: AwaitAll
\* returns the tasks slice.
AllSucceeded == grp.op = "AwaitAll" /\ grp.arm = "done" /\ grp.ret = "ok"

\* C12: when AwaitAll returns successfully, its result has one record per
\* position of the input list, and the record at position i is the record
\* of the task submitted under the ID at position i (for a deferred ID, of
\* the entry that ran its Runnable), whatever order the tasks completed in.
C12_AwaitAllOrder ==
    AllSucceeded =>
        /\ Len(grp.out) = Len(grp.ids)
        /\ \A i \in 1..Len(grp.ids) :
              LET t == Target(grp.ids[i])
              IN /\ grp.out[i] = tres[t]
                 /\ grp.out[i].id = t
                 /\ runnable[t] = grp.ids[i]
                 /\ grp.out[i].error = "nil"
                 /\ closes[t] = 1

\* C12 witness: AwaitAll has returned the records of a list that holds a
\* deferred ID before an Async ID; the Async task held the only worker slot
\* first, so the task at the second position completed before the first.
C12_Witness ==
    /\ AllSucceeded /\ grp.returned
    /\ Len(grp.ids) = 2
    /\ IsDeferred(grp.ids[1]) /\ ~IsDeferred(grp.ids[2])
    /\ grp.out[1].id # grp.ids[1] /\ grp.out[2].id = grp.ids[2]
    /\ grp.out[1].result = "val" /\ grp.out[2].result = "val"

\* The async entry that carries the work of listed ID i has resolved its
\* latch with an error in its result slot.
FinishedWithError(i) == closes[Target(i)] >= 1 /\ tres[Target(i)].error # "nil"

\* C13: when AwaitAll has returned, its caller's scope has not fired and a
\* task of the list finished with an error, AwaitAll has returned no result
\* list and an error of category task failed: the first error that a waiter
\* sent, which names a listed ID and wraps the error of that ID's task.
\* (No other client call runs during the AwaitAll.)
C13_AwaitAllFailure ==
    (/\ grp.op = "AwaitAll" /\ grp.returned
     /\ scopes[grp.ctx] = "live"
     /\ \E i \in 1..Len(grp.ids) : FinishedWithError(grp.ids[i]))
    => /\ grp.ret = "failed"
       /\ grp.out = <<>>
       /\ grp.err = grp.errs[1]
       /\ grp.err.cat = "failed"
       /\ \E i \in 1..Len(grp.ids) :
             /\ grp.err.id = grp.ids[i]
             /\ FinishedWithError(grp.ids[i])
             /\ grp.err.inner = tres[Target(grp.ids[i])].error

\* C13 witness: both tasks of a list failed, the waiter of the second
\* position sent its error first, and AwaitAll returned that error.
C13_Witness ==
    /\ grp.op = "AwaitAll" /\ grp.returned
    /\ scopes[grp.ctx] = "live"
    /\ Len(grp.ids) = 2 /\ Len(grp.errs) = 2
    /\ grp.errs[1].id = grp.ids[2]
    /\ grp.err = grp.errs[1] /\ grp.ret = "failed" /\ grp.err.inner = "err"

\* C14: when the caller's scope fired while AwaitAll was blocked in its
\* select with no arm ready, and AwaitAll has returned, Cancel was called on
\* every listed ID before the return, no list was returned, and the error is
\* timeout when the scope ended by its deadline and canceled otherwise.
C14_AwaitAllScopeFires ==
    (grp.op = "AwaitAll" /\ grp.early /\ grp.returned)
    => /\ \A i \in 1..Len(grp.ids) : grp.ids[i] \in grp.canceled
       /\ grp.out = <<>>
       /\ grp.ret = IF scopes[grp.ctx] = "deadline" THEN "timeout" ELSE "canceled"

\* C14 witness: AwaitAll of two tasks was blocked when the deadline of its
\* scope passed; it called Cancel on both IDs and returned timeout.
C14_Witness ==
    /\ grp.op = "AwaitAll" /\ grp.early /\ grp.returned
    /\ Len(grp.ids) = 2
    /\ grp.canceled = {grp.ids[1], grp.ids[2]}
    /\ scopes[grp.ctx] = "deadline"
    /\ grp.ret = "timeout"

\* AwaitAny of a list that is not empty has returned a record and no error.
AnySucceeded ==
    grp.op = "AwaitAny" /\ grp.returned /\ grp.ret = "ok" /\ grp.ids # <<>>

\* C15: when AwaitAny has returned a record without error, the record is the
\* result of a listed task that completed successfully, and from then on
\* Status reports Canceled for every other listed ID.
C15_AwaitAnyOthersCanceled ==
    AnySucceeded
    => /\ \E i \in 1..Len(grp.ids) : Target(grp.ids[i]) = grp.won.id
       /\ grp.won.error = "nil"
       /\ grp.won = tres[grp.won.id]
       /\ \A i \in 1..Len(grp.ids) :
             (grp.ids[i] # grp.won.id /\ Target(grp.ids[i]) # grp.won.id)
             => StatusAlone(grp.ids[i]) = StatusCanceled

\* C16: when the first waiter of an AwaitAny call to deliver delivered an
\* error, the caller's scope has not fired and AwaitAny has returned, it
\* returned that error and called Cancel on every listed ID.
C16_AwaitAnyFirstFailure ==
    (/\ grp.op = "AwaitAny" /\ grp.returned
     /\ scopes[grp.ctx] = "live"
     /\ grp.first.cat \notin {"none", "ok"})
    => /\ grp.ret = grp.first.cat
       /\ grp.err = grp.first
       /\ \A i \in 1..Len(grp.ids) : grp.ids[i] \in grp.canceled

\* C17: in the step in which the Runnable of a worker returns, the terminal
\* status the worker computes, and stores next, is Canceled when the task's
\* child scope has fired, whether or not an error was returned; otherwise
\* Failed when an error was returned and Completed when none was.
C17_TerminalStatus ==
    [][\A i \in IDs :
          (worker[i] = "w_exec" /\ worker'[i] = "w_status")
          => wstatus'[i] = IF TaskCtxFired(i) THEN StatusCanceled
                           ELSE IF tres'[i].result # "val" THEN StatusFailed
                           ELSE StatusCompleted]_vars

\* The positions of Async and Defer past the check of the shutting-down flag
\* on the path that admits the submission: the select on the semaphore, where
\* Async can block, the positions that hold a slot, and the stores of Defer.
Admitted == {"as_select", "as_cx_status", "as_cancel", "as_spawn", "df_store", "df_status"}

\* C18: an Async or Defer call that began with the shutting-down flag set
\* never reaches the select on the semaphore or a position holding a slot,
\* and returns an ID whose status is Canceled at the return; the Runnable of
\* such an ID is never invoked and no worker exists for it, whatever calls
\* (Await included) are made on the ID afterwards.
C18_RefusedAfterShutdown ==
    [][/\ \A p \in Clients :
             (call'[p].op \in {"Async", "Defer"} /\ call'[p].sd)
             => pc'[p] \notin Admitted
       /\ \A p \in Clients :
             (/\ call[p].op \in {"Async", "Defer"} /\ call[p].sd
              /\ pc[p] # "idle" /\ pc'[p] = "idle")
             => taskStatuses'[call[p].tid] = StatusCanceled
       /\ \A i \in refused' :
             /\ worker'[i] = "none"
             /\ \A j \in IDs : runnable'[j] = i => runs'[j] = 0]_vars

\* C19: an Await of an ID that an Async call returned under shutdown, when
\* it finds the entry and returns through the latch, returns an error, and
\* the error of the record is the canceled error; it never returns success.
C19_RefusedAsyncAwait ==
    \A p \in Clients :
        (/\ pc[p] = "idle" /\ call[p].op = "Await"
         /\ call[p].arg \in refused /\ runnable[call[p].arg] = call[p].arg
         /\ call[p].ret \in {"ok", "failed"})
        => /\ call[p].ret = "failed"
           /\ call[p].rec.error = "canceled"

\* C20: an Async call whose scope has fired before it acquired a worker slot
\* does not acquire one: from the select on the semaphore it does not go on
\* to start a worker, so the Runnable is not invoked and no slot is held.
C20_FiredScopeNoSlot ==
    [][\A p \in Clients :
          (pc[p] = "as_select" /\ Fired(asyncCtx[call[p].tid]))
          => pc'[p] # "as_cancel"]_vars

\* The Runnable of async entry i panicked: recover() wrote the panicked error
\* to the result slot (manager.go:251-256).
Panicked(i) == tres[i].error = "panicked"

\* C21: a panic of a Runnable is caught in its worker: the result slot gets
\* an error of category panicked, the status Failed is stored, the latch is
\* resolved once before the worker gives up its in-flight count and its
\* slot, both of which it does in the steps it takes next, and an Await that
\* returns through the latch returns the panicked record with an error of
\* category task failed.  (A step of the worker is a step of a running
\* process: HelperPanic, which ends the process, is no step of the worker.)
C21_PanicContained ==
    [][/\ \A i \in IDs :
             /\ (worker[i] = "w_exec" /\ worker'[i] = "wp_result")
                => (tres'[i].error = "panicked" /\ tres'[i].id = i)
             /\ (worker[i] = "wp_status" /\ worker'[i] = "wp_close")
                => taskStatuses'[i] = StatusFailed
             /\ (Panicked(i) /\ worker'[i] \in {"w_wgdone", "w_release", "w_exit"})
                => closes'[i] = 1
             /\ (/\ Panicked(i) /\ worker[i] = "w_wgdone"
                 /\ worker'[i] \notin {"w_wgdone", "crashed"})
                => (wg' = wg - 1 /\ worker'[i] = "w_release")
             /\ (/\ Panicked(i) /\ worker[i] = "w_release"
                 /\ worker'[i] \notin {"w_release", "crashed"})
                => (sem' = sem - 1 /\ worker'[i] = "w_exit")
       /\ \A p \in Clients :
             (/\ pc[p] = "aw_select" /\ pc'[p] = "idle"
              /\ Panicked(call[p].id) /\ closes[call[p].id] >= 1
              /\ call'[p].ret \in {"ok", "failed"})
             => (call'[p].ret = "failed" /\ call'[p].rec.error = "panicked")
       /\ C1_WorkerLimit']_vars

\* C21 witness: a Runnable panicked, its worker has exited, the status is
\* Failed, the latch resolved, no slot or in-flight count is left, and an
\* Await has returned the panicked record with the task-failed error.
C21_Witness ==
    \E i \in IDs, p \in Clients :
        /\ Panicked(i) /\ worker[i] = "w_exit"
        /\ taskStatuses[i] = StatusFailed /\ closes[i] = 1
        /\ sem = 0 /\ wg = 0
        /\ pc[p] = "idle" /\ call[p].op = "Await" /\ call[p].arg = i
        /\ call[p].ret = "failed" /\ call[p].rec.error = "panicked"

\* The positions of a call of Cancel.
CancelLabels == {"cn_check", "cn_fire", "cn_reach", "cn_status", "cn_delcancel",
                 "cn_delresult", "cn_deltask"}

\* C22: an Await call whose scope fired while the latch of the task it
\* awaits was not resolved (before the call began or while it ran) returns,
\* when it has found the task, out of a Cancel that it called on the entry
\* that carries the work (the promoted entry for a deferred ID), with no
\* record and the error timeout if the scope reached its deadline, canceled
\* if it was canceled.
C22_AwaitScopeFires ==
    [][\A p \in Clients :
          (/\ call[p].op = "Await" /\ call[p].aFired
           /\ pc[p] # "idle" /\ pc'[p] = "idle"
           /\ call'[p].ret # "notfound")
          => /\ pc[p] \in CancelLabels
             /\ call[p].id = Target(call[p].arg)
             /\ call'[p].rec = ZeroTask
             /\ call'[p].ret = IF scopes[call[p].ctx] = "deadline"
                               THEN "timeout" ELSE "canceled"]_vars

\* C23: an Await call in progress whose scope has fired eventually returns,
\* whatever the Runnables do.
C23_AwaitReturnsAfterScope ==
    \A p \in Clients :
        (pc[p] # "idle" /\ call[p].op = "Await" /\ Fired(call[p].ctx))
            ~> (pc[p] = "idle")

\* C24: with Runnables that call Async for a child and then Await it, every
\* async entry, parent or child, eventually has its work finished and its
\* worker gone.
C24_NestedNoDeadlock ==
    \A i \in IDs : (tasks[i] = "async") ~> (closes[i] >= 1 /\ ~WorkerLive(i))

\* C25: with more submissions than worker slots and Runnables that return,
\* every Async call that waits at the semaphore gets a slot, every submitted
\* task reaches a terminal status with its latch resolved and its worker gone,
\* and in the end no task is Pending or Running and no slot is occupied.
C25_PoolDrains ==
    /\ \A p \in Clients : (pc[p] = "as_select") ~> (pc[p] = "as_cancel")
    /\ \A i \in IDs :
          (taskStatuses[i] # Absent)
              ~> (/\ taskStatuses[i] \in Terminal /\ closes[i] = 1
                  /\ worker[i] = "w_exit")
    /\ <>[](/\ sem = 0
            /\ \A i \in IDs : taskStatuses[i] \notin {StatusPending, StatusRunning})

\* C25 witness: more tasks than worker slots were submitted, all of them are
\* terminal with their latch resolved and their worker gone, no slot is held.
C25_Witness ==
    /\ Cardinality({i \in IDs : taskStatuses[i] \in Terminal}) > WorkerLimit
    /\ \A i \in IDs : taskStatuses[i] # Absent
                        => (/\ taskStatuses[i] \in Terminal /\ closes[i] = 1
                            /\ worker[i] = "w_exit")
    /\ sem = 0 /\ wg = 0

\* C26: when a call Cancel(id) made by a client returns while the Runnable
\* of the entry that carries the work of id is running, the scope that was
\* passed to that Runnable has fired.
C26_CancelFiresScope ==
    [][\A p \in Clients :
          (/\ call[p].op = "Cancel" /\ pc[p] \in CancelLabels /\ pc'[p] = "idle"
           /\ call[p].arg \in known
           /\ worker'[Target(call[p].arg)] = "w_exec")
          => TaskCtxFired(Target(call[p].arg))']_vars

\* The status the status table holds for the entry that carries the work
\* of ID i.
WorkStatus(i) ==
    IF taskStatuses[Target(i)] = Absent THEN StatusUnknown
    ELSE taskStatuses[Target(i)]

\* C27: for every ID handed to a caller, in every state in which a call of
\* Status(id) returns without waiting for a promotion in progress, Status(id)
\* is the status of the entry that carries the work, Task(id) carries the
\* text of that same status, and once the work is terminal and its result is
\* stored, Task(id) carries that result.
C27_StatusAndTaskAgree ==
    \A i \in known :
        StatusAlone(i) # Blocked
        => /\ StatusAlone(i) = WorkStatus(i)
           /\ TaskAlone(i).status = String(StatusAlone(i))
           /\ (WorkStatus(i) \in Terminal /\ tasksResult[Target(i)] # NoResult)
              => TaskAlone(i).rec = tasksResult[Target(i)]

\* The positions of a thread inside Prune.
PruneLabels == {"pr_range", "pr_ttl", "pr_deltask", "pr_delcancel",
                "pr_delresult", "pr_delstatus"}

\* The work of entry i is Deferred, Pending or Running.
Unfinished(i) ==
    \/ taskStatuses[i] \in {StatusDeferred, StatusPending, StatusRunning}
    \/ worker[i] \in {"w_start", "w_exec"}

\* The IDs whose status entry the step removes.
Removed == {j \in IDs : taskStatuses[j] # Absent /\ taskStatuses'[j] = Absent}

\* C28: a step of Prune, with any TTL, at any point of the workers'
\* progress and of the other calls, leaves the four table entries of every
\* task whose work is Deferred, Pending or Running as they are, adds to its
\* count the number of IDs it removes, and Prune returns that count.
C28_PruneKeepsUnfinished ==
    [][\A p \in Clients :
          (call[p].op = "Prune" /\ pc[p] \in PruneLabels /\ pc'[p] # pc[p])
          => /\ \A j \in IDs :
                    Unfinished(j)
                    => /\ tasks'[j] = tasks[j]
                       /\ tasksResult'[j] = tasksResult[j]
                       /\ taskStatuses'[j] = taskStatuses[j]
                       /\ (j \in tasksCancel') = (j \in tasksCancel)
             /\ call'[p].n = call[p].n + Cardinality(Removed)
             /\ pc'[p] = "idle" => call'[p].ret = "n"]_vars

\* Prune has returned to the request thread, which has made no call since.
PruneReturned ==
    pc[Main] = "idle" /\ call[Main].op = "Prune" /\ call[Main].ret = "n"

\* The Runnable submitted under ID i has run and its worker has exited.
WorkFinished(i) == i \in known /\ worker[Target(i)] = "w_exit"

\* ID i is in none of the four tables.
Gone(i) ==
    /\ tasks[i] = Absent
    /\ tasksResult[i] = NoResult
    /\ i \notin tasksCancel
    /\ taskStatuses[i] = Absent

\* C29: after Prune(0) on a quiescent manager, Status reports a terminal
\* status for no ID, every ID removed from the status table is in none of
\* the four tables, and every ID whose work has finished, a deferred ID
\* whose promoted task has completed included, is in none of the tables.
C29_QuiescentPruneRemovesFinished ==
    PruneReturned
    => /\ \A i \in known : StatusAlone(i) \notin Terminal
       /\ \A i \in known : taskStatuses[i] = Absent => Gone(i)
       /\ \A i \in known : WorkFinished(i) => Gone(i)

\* C30: with ttl > 0, Prune goes on to delete the entry it visits only if
\* a time is recorded for it and that time is at least ttl in the past; an
\* entry with no recorded time, and one whose time is less than ttl in the
\* past, is kept.
C30_TTLKeepsRecent ==
    [][\A p \in Clients :
          (call[p].op = "Prune" /\ call[p].ttl > 0
              /\ pc[p] = "pr_ttl" /\ pc'[p] = "pr_deltask")
          => LET r == tasksResult[call[p].id]
             IN /\ r # NoResult
                /\ r.time # 0
                /\ now - r.time >= call[p].ttl]_vars

\* The scope of the WithRetry wrapper of entry id fired during the backoff
\* wait the wrapper is in: after the wait began and before its timer elapsed.
FiredInWait(id) ==
    /\ wrap[id].kind = "retry"
    /\ wrap[id].pos \in {"enter", "parked"}
    /\ ~wrap[id].pre
    /\ \/ wrap[id].timer = "armed" /\ TaskCtxFired(id)
       \/ wrap[id].timer = "fired" /\ wrap[id].late

\* What the claim says of the calls of the inner Runnable and of the value
\* returned, for the WithRetry wrapper of entry id.
RetryOutcome(id) ==
    LET w == wrap[id] IN
    w.kind = "retry"
    => /\ w.tries <= w.retries + 1
       /\ w.pos = "done" => w.tries >= 1
       /\ (w.pos = "done" /\ w.val = "val") => (w.err = "nil" /\ w.i = w.tries - 1)
       /\ (w.pos = "done" /\ w.val = "nil" /\ w.tries = w.retries + 1)
          => w.err = Exhausted(AttemptErr(w.retries))

\* C31: the Runnable made by WithRetry(r, n, backoff) calls r at least once
\* and at most n+1 times, returns the value of the first success, returns
\* an error wrapping the last attempt's error when all n+1 attempts fail,
\* and, when the scope fires during a backoff wait, leaves the wait by
\* returning a canceled error, with no further attempt.
C31_RetryContract ==
    [][\A id \in IDs :
          /\ RetryOutcome(id)'
          /\ (FiredInWait(id) /\ wrap'[id].pos \notin {"enter", "parked"})
             => /\ wrap'[id].pos = "done"
                /\ wrap'[id].tries = wrap[id].tries
                /\ wrap'[id].err = "canceled"]_vars

\* The WithTimeout wrapper of entry id returns in this step.
TimeoutReturns(id) ==
    /\ wrap[id].kind = "timeout"
    /\ wrap[id].pos \in {"enter", "parked"}
    /\ wrap'[id].pos = "done"

\* C32: the Runnable made by WithTimeout(r, d) returns r's value and error
\* when r returned before the deadline was reached; it returns a timeout
\* error, with r's scope canceled, when the deadline was reached first; r's
\* scope is canceled on every return; and Await on a task whose wrapper
\* returned the timeout error reports task failed wrapping that error.
C32_TimeoutContract ==
    [][/\ \A id \in IDs :
             TimeoutReturns(id)
             => /\ wrap'[id].first = "result"
                   => /\ wrap'[id].val = (IF wrap[id].chan = "ok" THEN "val" ELSE "nil")
                      /\ wrap'[id].err = (IF wrap[id].chan = "ok" THEN "nil"
                                          ELSE AttemptErr(0))
                /\ wrap'[id].first = "deadline"
                   => /\ wrap'[id].err = "timeout"
                      /\ TimeoutCtxDone(id)'
                /\ wrap'[id].tctx # "live"
       /\ \A p \in Clients :
             (call[p].op = "Await" /\ pc[p] = "aw_select" /\ pc'[p] = "idle"
                 /\ wrap[call[p].id].err = "timeout")
             => /\ call'[p].ret = "failed"
                /\ call'[p].rec.error = "timeout"]_vars

\* The Runnables of both tasks have called Await on each other.
CircleBegun == \A i \in Circle : call[Thread(i)].op = "Await"

\* The scope of neither Runnable has fired.
CircleLive == \A i \in Circle : ~TaskCtxFired(i)

\* C33: once two tasks await each other and as long as the scope of
\* neither has fired, both tasks are Running, both Awaits are blocked, and
\* no Await of the request thread on either has returned.
C33_CircularAwaitBlocks ==
    (CircleBegun /\ CircleLive)
    => /\ \A i \in Circle : /\ StatusAlone(i) = StatusRunning
                            /\ worker[i] = "w_exec"
                            /\ pc[Thread(i)] \in {"aw_load", "aw_select"}
                            /\ call[Thread(i)].ret = "none"
       /\ call[Main].op = "Await" => pc[Main] \in {"aw_load", "aw_select"}

\* Both Runnables and the request thread are blocked in Await, no scope
\* having fired.
C33_Witness ==
    /\ CircleBegun /\ CircleLive
    /\ \A i \in Circle : pc[Thread(i)] = "aw_select"
    /\ call[Main].op = "Await" /\ pc[Main] = "aw_select"

\* The positions of context c at which a manager is bound.
Bindings(c) == {i \in 1..Len(c) : c[i].kind = "manager"}

\* C34: FromContext on a context in which a manager was bound, directly or
\* below derivations that bind none, returns that manager, pointer and
\* tables; on a context in which none is bound it returns a manager that
\* NewManager has just made, different from every manager there was, with
\* empty tables.
C34_FromContextReturnsBound ==
    cx.looked
    => LET B == Bindings(cx.at)
       IN IF B # {}
          THEN cx.got = cx.at[CHOOSE i \in B : \A j \in B : j <= i].mgr
          ELSE /\ cx.got.ids = {}
               /\ cx.got.ptr = 2 + cx.made
               /\ \A m \in Bound : cx.got.ptr # m.ptr

\* FromContext has returned the manager with tasks, bound two derivations
\* below the context it was called with.
C34_Witness ==
    /\ cx.looked
    /\ Len(cx.at) = 3
    /\ Bindings(cx.at) = {1}
    /\ cx.got = MkManager(1, {1, 2})

\* AwaitAll is in progress, a waiter has reported the failure of a listed
\* task, the Runnable of another listed task is running, and the caller's
\* scope has not fired.
FailedWhileRunning ==
    /\ grp.op = "AwaitAll" /\ ~grp.returned
    /\ grp.errs # <<>>
    /\ \E k \in 1..Len(grp.ids) : worker[Target(grp.ids[k])] = "w_exec"
    /\ ~Fired(grp.ctx)

\* C35: when a listed task has failed while another listed task is still
\* running and the caller's scope has not fired, AwaitAll returns, whether
\* or not the running task ever finishes.
C35_AwaitAllReportsFirstError ==
    FailedWhileRunning ~> grp.returned

\* AwaitAll has returned the error of a listed task and its caller's scope
\* has not fired.
ReturnedTaskError ==
    /\ grp.op = "AwaitAll" /\ grp.returned
    /\ grp.ret = "failed"
    /\ scopes[grp.ctx] = "live"

\* The entry that carries the work of listed ID i is as its worker left it:
\* still in the task table, its scope not canceled, its status the one that
\* the outcome of its Runnable gives, and its result the resolved one.
LeftIntact(i) ==
    /\ tasks[i] # Absent /\ tasks[Target(i)] # Absent
    /\ ~taskCanceled[i] /\ ~taskCanceled[Target(i)]
    /\ closes[Target(i)] >= 1
    /\ taskStatuses[Target(i)] = IF tres[Target(i)].error = "nil"
                                 THEN StatusCompleted ELSE StatusFailed
    /\ tasksResult[Target(i)] = tres[Target(i)]

\* C36: when AwaitAll has returned the error of a listed task and its
\* caller's scope has not fired, AwaitAll called Cancel on no listed ID, and
\* every listed task is still stored with the status and the result of its
\* own outcome, so that a later Await of it returns that outcome.
C36_AwaitAllLeavesSiblings ==
    ReturnedTaskError
    => /\ grp.canceled = {}
       /\ \A k \in 1..Len(grp.ids) : LeftIntact(grp.ids[k])

\* C36 witness: AwaitAll of two tasks returned the failure of one of them
\* under a live scope, and the other one is stored as completed with its
\* value.
C36_Witness ==
    /\ ReturnedTaskError
    /\ Len(grp.ids) = 2 /\ grp.ids[1] # grp.ids[2]
    /\ grp.err.id = grp.ids[1]
    /\ taskStatuses[Target(grp.ids[1])] = StatusFailed
    /\ taskStatuses[Target(grp.ids[2])] = StatusCompleted
    /\ tasksResult[Target(grp.ids[2])].result = "val"

\* The Await call of p returns in this step through the latch arm of its
\* select.
ReturnsByLatch(p) ==
    /\ call[p].op = "Await"
    /\ pc[p] = "aw_select" /\ pc'[p] = "idle"

\* C37: at every step in which an Await returns through the latch arm,
\* Status of the awaited ID is Completed, Failed or Canceled, and it is
\* Completed exactly when the Await returns no error.
C37_StatusSettledAtLatch ==
    [][\A p \in Clients :
          ReturnsByLatch(p)
          => /\ StatusAlone(call[p].arg)' \in Terminal
             /\ StatusAlone(call[p].arg)' = StatusCompleted
                   <=> call'[p].ret = "ok"]_vars

\* C38: an Await under a scope that never fires returns the outcome of the
\* task itself, whatever happens to the scopes of the other Await calls on
\* the same ID: it finds the task, and it returns the record that the
\* Runnable's own return gave, with the value and no error when the Runnable
\* returned a value.
C38_AwaitScopeIsLocal ==
    [][\A p \in Clients :
          (/\ call[p].op = "Await" /\ call[p].ctx = "bg"
           /\ pc[p] # "idle" /\ pc'[p] = "idle")
          => /\ call'[p].ret \in {"ok", "failed"}
             /\ call'[p].rec.error \in {"nil", "err"}
             /\ call'[p].rec.result = "val" => call'[p].ret = "ok"]_vars

\* The listed IDs whose work produced the record that AwaitAny returned.
Winners == {grp.ids[k] : k \in {j \in 1..Len(grp.ids) : Target(grp.ids[j]) = grp.won.id}}

\* C39: after AwaitAny has returned a record, AwaitAny called Cancel on no
\* listed ID that produced it; the status of such an ID is Completed, and
\* the ID is still stored with its latch resolved to the returned record, so
\* that a later Await of it returns that record.
C39_AwaitAnyWinnerIntact ==
    AnySucceeded
    => \A i \in Winners :
          /\ i \notin grp.canceled
          /\ StatusAlone(i) = StatusCompleted
          /\ tasks[i] # Absent /\ tasks[Target(i)] # Absent
          /\ closes[Target(i)] >= 1 /\ tres[Target(i)] = grp.won

\* The user Runnable that entry i carries is executing: the Runnable that
\* the worker called, or the inner Runnable of its WithTimeout wrapper in
\* the goroutine that the wrapper started.
Executing(i) ==
    IF wrap[i].kind = "timeout" THEN wrap[i].inner = "running"
    ELSE worker[i] = "w_exec"

\* C40: at every moment at most WorkerLimit user Runnables are executing,
\* the inner Runnables of WithTimeout wrappers included, and each of them
\* belongs to a task whose worker still holds its slot.
C40_RunnablesWithinSlots ==
    /\ Cardinality({i \in IDs : Executing(i)}) <= WorkerLimit
    /\ \A i \in IDs : Executing(i) => WorkerLive(i)

====
